---- MODULE Spec2Model ----
(***************************************************************************)
(* Model of the drill scheduler of train-like-aj (src/js/game.js).         *)
(*                                                                         *)
(* FocusMittDrill is a single-threaded, timer-driven state machine.  The   *)
(* model keeps the fields of one FocusMittDrill instance, the table of     *)
(* pending browser timers (setTimeout / clearTimeout) and the time that    *)
(* has elapsed since lastHitTime.  Every handler of the class is one       *)
(* atomic action (JavaScript runs a callback to completion).               *)
(*                                                                         *)
(* Times are in milliseconds.  comboMultiplier is kept in tenths (10 is    *)
(* the multiplier 1.0), so that all arithmetic stays in the integers.      *)
(***************************************************************************)
EXTENDS Integers, Sequences, FiniteSets, Bags, TLC

(***************************************************************************)
(* Bounds of the model.                                                    *)
(***************************************************************************)
MaxTimers == 2      \* pending timers kept in the timer table
MaxMisses == 1      \* totalMisses explored per session
MaxPerfect == 1     \* perfectHits explored per session
MaxHits == 3        \* totalHits explored in a session played from scratch
MaxLevels == 13     \* levels at which SpecLevels begins a session
MaxCombo == 60      \* combo counts given to calculateComboMultiplier
MaxSpeedSteps == 120 \* speeds given to calculateScore, in steps of 5 px/s
MaxAngle == 180     \* elbow angles given to calculateScore, in degrees
MaxStreak == 4      \* consecutive perfect hits given to calculateBonusPoints
MaxComboTimers == 3 \* pending callbacks of the ComboDrill
MaxSamples == 7     \* frames up to which a tracker is sampled frame by frame
MaxNow == 800       \* performance.now() up to which frames are explored
LatePunch == 2400   \* a step of the clock between two timer deadlines

(***************************************************************************)
(* Constants of the program.                                               *)
(***************************************************************************)
comboResetDelay == 3000
hitsPerLevel == 10
baseReactionTime == 2500
minReactionTime == 800

PUNCH_TYPES ==
  {"Jab", "Cross", "Left Hook", "Right Hook",
   "Left Uppercut", "Right Uppercut", "Left Body", "Right Body"}

null == "null"            \* JavaScript null (this.activePunch, this.drillTimeout)

VARIABLES
  isRunning,            \* this.isRunning
  activePunch,          \* this.activePunch: a punch name or null
  drillTimeout,         \* this.drillTimeout: null or "id", the id of the timer
                        \* (pending or not) whose handle flag is set
  comboCount,           \* this.comboCount
  comboMultiplier,      \* this.comboMultiplier, in tenths
  level,                \* this.level
  hitsInLevel,          \* this.hitsInLevel
  totalHits,            \* this.totalHits
  totalMisses,          \* this.totalMisses
  perfectHits,          \* this.perfectHits
  availablePunchTypes,  \* this.availablePunchTypes: a sequence of names
  sinceLastHit,         \* Date.now() - this.lastHitTime, saturated
  timers,               \* the bag of pending timers of the event loop
  lastPoints,           \* points of the this.onScore(points) call made by the
                        \* last handler, 0 when it made none
  outcomes,             \* history: the Hits and Misses recorded for the target
                        \* that was announced last
  summary,              \* the session summary that the last handler showed:
                        \* <<>> when it showed none
  bestCombo,            \* history: the largest comboCount of the session
  call,                 \* a call of a function of scoring.js: its name and
                        \* its arguments
  value,                \* what the call returned: <<>> before it returns
  variant,              \* the punch.js that is loaded: "strict" or "arcade"
  now,                  \* performance.now(), in milliseconds
  lastPositions,        \* speedTracker.lastPositions: a Map from landmark id
  velocityHistory,      \* speedTracker.velocityHistory: a Map from landmark id
  lastPunchTime,        \* punchCooldown.lastPunchTime
  lastPunchType,        \* punchCooldown.lastPunchType: a class name or null
  result,               \* what the last call of punch.js returned or threw
  observed,             \* history: the landmark ids given to updateSpeed
                        \* since the tracker was constructed or reset
  pushes,               \* history: for each of these ids, how many speeds
                        \* were pushed to its history since then
  comboDrill,           \* the ComboDrill: isRunning, currentCombo, stepIndex
  comboTimers,          \* its pending setTimeout callbacks, counted by kind
  comboOut              \* what its last call gave to onScore, and whether
                        \* the call threw

\* The fields of the drill, its timers and its outputs.
drillVars ==
  <<isRunning, activePunch, drillTimeout, comboCount, comboMultiplier,
    level, hitsInLevel, totalHits, totalMisses, perfectHits,
    availablePunchTypes, sinceLastHit, timers, lastPoints, outcomes,
    summary, bestCombo>>

\* The call of a function of scoring.js.
scoringVars == <<call, value>>

\* The module state of punch.js and the result of its last call.
detectorVars ==
  <<variant, now, lastPositions, velocityHistory, lastPunchTime,
    lastPunchType, result, observed, pushes>>

\* The ComboDrill, its timers and its outputs.
comboVars == <<comboDrill, comboTimers, comboOut>>

vars == <<drillVars, scoringVars, detectorVars, comboVars>>

Range(s) == {s[i] : i \in 1..Len(s)}

includes(s, x) == x \in Range(s)

Max(a, b) == IF a >= b THEN a ELSE b

Min(a, b) == IF a <= b THEN a ELSE b

abs(n) == IF n < 0 THEN -n ELSE n

(***************************************************************************)
(* The state as one record, so that the methods of the class are           *)
(* operators from state to state and compose as the calls do.              *)
(***************************************************************************)
State ==
  [isRunning |-> isRunning, activePunch |-> activePunch,
   drillTimeout |-> drillTimeout, comboCount |-> comboCount,
   comboMultiplier |-> comboMultiplier, level |-> level,
   hitsInLevel |-> hitsInLevel, totalHits |-> totalHits,
   totalMisses |-> totalMisses, perfectHits |-> perfectHits,
   availablePunchTypes |-> availablePunchTypes,
   sinceLastHit |-> sinceLastHit, timers |-> timers,
   lastPoints |-> lastPoints, outcomes |-> outcomes,
   summary |-> summary, bestCombo |-> bestCombo]

\* The state on entry to a handler, which has made no onScore call and has
\* shown no summary yet.
Entered == [State EXCEPT !.lastPoints = 0, !.summary = <<>>]

Become(s) ==
  /\ isRunning' = s.isRunning
  /\ activePunch' = s.activePunch
  /\ drillTimeout' = s.drillTimeout
  /\ comboCount' = s.comboCount
  /\ comboMultiplier' = s.comboMultiplier
  /\ level' = s.level
  /\ hitsInLevel' = s.hitsInLevel
  /\ totalHits' = s.totalHits
  /\ totalMisses' = s.totalMisses
  /\ perfectHits' = s.perfectHits
  /\ availablePunchTypes' = s.availablePunchTypes
  /\ sinceLastHit' = s.sinceLastHit
  /\ timers' = s.timers
  /\ lastPoints' = s.lastPoints
  /\ outcomes' = s.outcomes
  /\ summary' = s.summary
  /\ bestCombo' = s.bestCombo
  /\ UNCHANGED <<scoringVars, detectorVars, comboVars>>

(***************************************************************************)
(* Browser timers.  A pending timer is a record                            *)
(*   kind    "announce" (the announce-delay callback of nextChallenge) or  *)
(*           "miss" (() => this.handleMiss())                              *)
(*   delay   the delay it was scheduled with                               *)
(*   rem     the time left until it is due                                 *)
(*   handle  TRUE when this.drillTimeout holds the id that setTimeout      *)
(*           returned for it: the one timer clearTimeout(this.drillTimeout)*)
(*           cancels                                                       *)
(*   stale   history: TRUE when a stop() was called after it was scheduled *)
(* Timer ids are unique and only ever compared with this.drillTimeout, so  *)
(* the handle flag says all that an id says.  Two timers can be equal as   *)
(* records, hence a bag.                                                   *)
(***************************************************************************)
Timer(kind, delay, handle) ==
  [kind |-> kind, delay |-> delay, rem |-> delay, handle |-> handle,
   stale |-> FALSE]

\* setTimeout whose result is dropped.
setTimeout(s, kind, delay) ==
  [s EXCEPT !.timers = @ (+) SetToBag({Timer(kind, delay, FALSE)})]

DropHandle(t) == [t EXCEPT !.handle = FALSE]

\* this.drillTimeout = setTimeout(...): the handle moves to the new timer.
setDrillTimeout(s, kind, delay) ==
  [s EXCEPT !.timers = BagOfAll(DropHandle, @)
                         (+) SetToBag({Timer(kind, delay, TRUE)}),
            !.drillTimeout = "id"]

HandleTimers(T) == {t \in BagToSet(T) : t.handle}

\* A clearTimeout that cancels nothing.
clearTimeoutNothing(s) == s

\* clearTimeout(this.drillTimeout): cancels the timer of the handle if it is
\* still pending, and does nothing for null or for a timer that is gone.
clearTimeout(s) ==
  [s EXCEPT !.timers = @ (-) SetToBag(HandleTimers(@))]

(***************************************************************************)
(* FocusMittDrill                                                          *)
(***************************************************************************)
\* A resetStats that keeps the combo.
resetStatsKeepCombo(s) ==
  [s EXCEPT !.level = 1, !.hitsInLevel = 0, !.totalHits = 0,
            !.totalMisses = 0, !.perfectHits = 0,
            !.availablePunchTypes = <<"Jab", "Cross">>]

resetStats(s) ==
  [s EXCEPT !.comboCount = 0, !.comboMultiplier = 10, !.level = 1,
            !.hitsInLevel = 0, !.totalHits = 0, !.totalMisses = 0,
            !.perfectHits = 0, !.availablePunchTypes = <<"Jab", "Cross">>]

\* An unlock check that does not look for the class already being there.
updateAvailablePunchesAgain(s) ==
  LET s1 == IF s.level >= 3
            THEN [s EXCEPT !.availablePunchTypes =
                     @ \o <<"Left Hook", "Right Hook">>]
            ELSE s
      s2 == IF s1.level >= 5
            THEN [s1 EXCEPT !.availablePunchTypes =
                     @ \o <<"Left Uppercut", "Right Uppercut">>]
            ELSE s1
  IN IF s2.level >= 7
     THEN [s2 EXCEPT !.availablePunchTypes =
              @ \o <<"Left Body", "Right Body">>]
     ELSE s2

\* An unlock table that adds the uppercuts one level late.
updateAvailablePunchesLate(s) ==
  LET s1 == IF s.level >= 3 /\ ~includes(s.availablePunchTypes, "Left Hook")
            THEN [s EXCEPT !.availablePunchTypes =
                     @ \o <<"Left Hook", "Right Hook">>]
            ELSE s
      s2 == IF s1.level >= 6
               /\ ~includes(s1.availablePunchTypes, "Left Uppercut")
            THEN [s1 EXCEPT !.availablePunchTypes =
                     @ \o <<"Left Uppercut", "Right Uppercut">>]
            ELSE s1
  IN IF s2.level >= 7 /\ ~includes(s2.availablePunchTypes, "Left Body")
     THEN [s2 EXCEPT !.availablePunchTypes =
              @ \o <<"Left Body", "Right Body">>]
     ELSE s2

updateAvailablePunches(s) ==
  LET s1 == IF s.level >= 3 /\ ~includes(s.availablePunchTypes, "Left Hook")
            THEN [s EXCEPT !.availablePunchTypes =
                     @ \o <<"Left Hook", "Right Hook">>]
            ELSE s
      s2 == IF s1.level >= 5
               /\ ~includes(s1.availablePunchTypes, "Left Uppercut")
            THEN [s1 EXCEPT !.availablePunchTypes =
                     @ \o <<"Left Uppercut", "Right Uppercut">>]
            ELSE s1
      s3 == IF s2.level >= 7 /\ ~includes(s2.availablePunchTypes, "Left Body")
            THEN [s2 EXCEPT !.availablePunchTypes =
                     @ \o <<"Left Body", "Right Body">>]
            ELSE s2
  IN s3

\* A reaction time without the floor of minReactionTime.
getCurrentReactionTimeNoFloor(s) == baseReactionTime - (s.level - 1) * 150

getCurrentReactionTime(s) ==
  Max(baseReactionTime - (s.level - 1) * 150, minReactionTime)

getDelayBetweenPunches(s) == Max(800 - (s.level - 1) * 40, 250)

resetCombo(s) == [s EXCEPT !.comboCount = 0, !.comboMultiplier = 10]

\* The synchronous part of nextChallenge: the stale-combo check and the
\* scheduling of the announce-delay callback, whose id is not kept.
nextChallenge(s) ==
  IF ~s.isRunning THEN s
  ELSE LET s1 == IF s.sinceLastHit > comboResetDelay /\ s.comboCount > 0
                 THEN resetCombo(s) ELSE s
       IN setTimeout(s1, "announce", getDelayBetweenPunches(s1))

showTarget(s, punchType) == [s EXCEPT !.activePunch = punchType]

\* The callback of the announce-delay timer; punchType is the random pick.
announceCallback(s, punchType) ==
  IF ~s.isRunning THEN s
  ELSE LET s1 == showTarget(s, punchType)
           s2 == setDrillTimeout(s1, "miss", getCurrentReactionTime(s1))
       IN [s2 EXCEPT !.outcomes = 0]

\* A normalisation that drops the side of the punch.
normalizePunchNameNoSide(punchName) ==
  CASE punchName = "Jab" -> "jab"
    [] punchName = "Cross" -> "cross"
    [] punchName \in {"Left Hook", "Right Hook"} -> "hook"
    [] punchName \in {"Left Uppercut", "Right Uppercut"} -> "uppercut"
    [] punchName \in {"Left Body", "Right Body"} -> "body"

normalizePunchName(punchName) ==
  CASE punchName = "Jab" -> "jab"
    [] punchName = "Cross" -> "cross"
    [] punchName = "Left Hook" -> "lhook"
    [] punchName = "Right Hook" -> "rhook"
    [] punchName = "Left Uppercut" -> "luppercut"
    [] punchName = "Right Uppercut" -> "ruppercut"
    [] punchName = "Left Body" -> "lbody"
    [] punchName = "Right Body" -> "rbody"

\* A levelUp that keeps the hits of the finished level.
levelUpKeepHits(s) ==
  updateAvailablePunches([s EXCEPT !.level = @ + 1])

levelUp(s) ==
  updateAvailablePunches([s EXCEPT !.level = @ + 1, !.hitsInLevel = 0])

\* A default score in the top quality tier.
OrDefaultTop(v) == IF v = 0 THEN 100 ELSE v

\* punchData.speedScore || 50: an absent or zero score counts as 50.
OrDefault(v) == IF v = 0 THEN 50 ELSE v

\* A hook test that never recognises a hook.
isHookNever(p) == FALSE

isHook(p) == p \in {"Left Hook", "Right Hook"}
isUppercut(p) == p \in {"Left Uppercut", "Right Uppercut"}
isBody(p) == p \in {"Left Body", "Right Body"}

\* History: one more outcome for the target that was announced last.
Resolve(s) == [s EXCEPT !.outcomes = Min(@ + 1, 2)]

handleHit(s, punchData) ==
  LET s1 == clearTimeout(s)
      cc == s1.comboCount + 1
      cm == 10 + (cc \div 3) * 5
      quality2 == OrDefault(punchData.speedScore)
                    + OrDefault(punchData.formScore)  \* 2 * avgQuality
      tier == IF quality2 > 180 THEN 50
              ELSE IF quality2 > 150 THEN 25 ELSE 0
      base == 100 + tier
                + (IF isHook(s1.activePunch) THEN 10 ELSE 0)
                + (IF isUppercut(s1.activePunch) THEN 20 ELSE 0)
                + (IF isBody(s1.activePunch) THEN 15 ELSE 0)
      points == (base * cm) \div 10
      s2 == [s1 EXCEPT !.comboCount = cc, !.comboMultiplier = cm,
                       !.sinceLastHit = 0,
                       !.perfectHits = IF quality2 > 180 THEN @ + 1 ELSE @,
                       !.lastPoints = points,
                       !.bestCombo = Max(@, cc),
                       !.totalHits = @ + 1, !.hitsInLevel = @ + 1]
      s3 == IF s2.hitsInLevel >= hitsPerLevel THEN levelUp(s2) ELSE s2
      s4 == [s3 EXCEPT !.activePunch = null]
  IN nextChallenge(Resolve(s4))

checkPunch(s, detectedPunch, punchData) ==
  IF ~s.isRunning \/ s.activePunch = null THEN s
  ELSE IF normalizePunchName(detectedPunch)
            = normalizePunchName(s.activePunch)
       THEN handleHit(s, punchData)
       ELSE s

\* A handleMiss that does not go on to the next challenge.
handleMissNoNext(s) ==
  LET s1 == clearTimeout(s)
      s2 == [s1 EXCEPT !.totalMisses = @ + 1]
      s3 == IF s2.comboCount > 0 THEN resetCombo(s2) ELSE s2
  IN [s3 EXCEPT !.activePunch = null]

handleMiss(s) ==
  LET s1 == clearTimeout(s)
      s2 == [s1 EXCEPT !.totalMisses = @ + 1]
      s3 == IF s2.comboCount > 0 THEN resetCombo(s2) ELSE s2
      s4 == [s3 EXCEPT !.activePunch = null]
  IN nextChallenge(s4)

\* start(); the history of the largest combo begins with the session.
start(s) ==
  nextChallenge(updateAvailablePunches(
    resetStats([s EXCEPT !.isRunning = TRUE, !.bestCombo = 0])))

MarkStale(t) == [t EXCEPT !.stale = TRUE]

\* ((hits / attempts) * 100).toFixed(1), in tenths of a percent.
toFixed1(hits, attempts) == (2000 * hits + attempts) \div (2 * attempts)

\* The notification of stop(): hits, misses, accuracy, max combo and level.
sessionSummary(s) ==
  [hits |-> s.totalHits, misses |-> s.totalMisses,
   accuracy |-> IF s.totalHits + s.totalMisses > 0
                THEN toFixed1(s.totalHits, s.totalHits + s.totalMisses)
                ELSE 0,
   maxCombo |-> s.comboCount, level |-> s.level]

\* stop(); the timers that survive it are marked as scheduled before a stop.
stop(s) ==
  LET s1 == clearTimeout([s EXCEPT !.isRunning = FALSE])
  IN [s1 EXCEPT !.timers = BagOfAll(MarkStale, @),
                !.summary = <<sessionSummary(s1)>>]

(***************************************************************************)
(* scoring.js, with multipliers in tenths                                  *)
(***************************************************************************)
\* A multiplier that drops back on the plateau of 10 to 14 hits.
calculateComboMultiplierDip(count) ==
  IF count < 3 THEN 10
  ELSE IF count < 5 THEN 12
  ELSE IF count < 10 THEN 15
  ELSE IF count < 15 THEN 14
  ELSE IF count < 25 THEN 20
  ELSE 25

calculateComboMultiplier(count) ==
  IF count < 3 THEN 10
  ELSE IF count < 5 THEN 12
  ELSE IF count < 10 THEN 15
  ELSE IF count < 15 THEN 18
  ELSE IF count < 25 THEN 20
  ELSE 25

(***************************************************************************)
(* calculateScore.  A score is kept as a fraction [n, d] with d > 0, so    *)
(* that the divisions by idealSpeed and angleTolerance and the weights are *)
(* exact; the weights are in hundredths.                                   *)
(***************************************************************************)
SCORING_CONFIG ==
  [jab |-> [idealAngle |-> 165, idealSpeed |-> 150, maxSpeed |-> 2500,
            angleTolerance |-> 25, speedWeight |-> 60, formWeight |-> 40],
   cross |-> [idealAngle |-> 165, idealSpeed |-> 180, maxSpeed |-> 3000,
              angleTolerance |-> 25, speedWeight |-> 65, formWeight |-> 35],
   hook |-> [idealAngle |-> 90, idealSpeed |-> 140, maxSpeed |-> 2200,
             angleTolerance |-> 30, speedWeight |-> 50, formWeight |-> 50],
   left |-> [idealAngle |-> 90, idealSpeed |-> 140, maxSpeed |-> 2200,
             angleTolerance |-> 30, speedWeight |-> 50, formWeight |-> 50],
   right |-> [idealAngle |-> 90, idealSpeed |-> 140, maxSpeed |-> 2200,
              angleTolerance |-> 30, speedWeight |-> 50, formWeight |-> 50]]

\* score >= k and score < k, for a fraction and a whole number
atLeast(score, k) == score.n >= k * score.d
below(score, k) == score.n < k * score.d

\* Math.round of a fraction that is not negative
MathRound(score) == (2 * score.n + score.d) \div (2 * score.d)

\* Math.max(0, Math.min(100, score))
clamp(score) ==
  [n |-> Max(0, Min(100 * score.d, score.n)), d |-> score.d]

\* SCORING_CONFIG[punchType] || SCORING_CONFIG.jab
configOf(punchType) ==
  IF punchType \in DOMAIN SCORING_CONFIG THEN SCORING_CONFIG[punchType]
  ELSE SCORING_CONFIG.jab

\* speedScore, as a fraction of denominator idealSpeed
speedScore(config, speed) ==
  LET ideal == config.idealSpeed
  IN clamp([n |-> IF 2 * speed < ideal                \* ratio < 0.5
                  THEN 200 * speed
                  ELSE IF 2 * speed <= 3 * ideal      \* ratio <= 1.5
                  THEN 100 * ideal - 30 * abs(speed - ideal)
                  ELSE Max(100 * ideal - 20 * speed, 40 * ideal),
            d |-> ideal])

\* A form score with the slopes of the two branches exchanged.
formScoreSteepInside(config, angle) ==
  LET tolerance == config.angleTolerance
      angleDeviation == abs(angle - config.idealAngle)
  IN clamp([n |-> IF angleDeviation <= tolerance
                  THEN 200 * tolerance - 3 * tolerance * angleDeviation
                  ELSE Max(200 * tolerance - 3 * tolerance * tolerance
                             - 40 * (angleDeviation - tolerance), 0),
            d |-> 2 * tolerance])

\* formScore, as a fraction of denominator 2 * angleTolerance
formScore(config, angle) ==
  LET tolerance == config.angleTolerance
      angleDeviation == abs(angle - config.idealAngle)
  IN clamp([n |-> IF angleDeviation <= tolerance
                  THEN 200 * tolerance - 40 * angleDeviation
                  ELSE Max(160 * tolerance
                             - 3 * tolerance * (angleDeviation - tolerance),
                           0),
            d |-> 2 * tolerance])

\* A total that adds the sub-scores without their weights.
weightedUnweighted(config, speedScore_, formScore_) ==
  [n |-> speedScore_.n * formScore_.d + formScore_.n * speedScore_.d,
   d |-> speedScore_.d * formScore_.d]

\* speedScore * config.speedWeight + formScore * config.formWeight
weighted(config, speedScore_, formScore_) ==
  [n |-> speedScore_.n * formScore_.d * config.speedWeight
           + formScore_.n * speedScore_.d * config.formWeight,
   d |-> speedScore_.d * formScore_.d * 100]

\* The weights 0.6 and 0.4 are no binary fractions: for these speeds and
\* angles the sum of the two products, computed in doubles, falls short of
\* the whole number that the exact sum is (45, 60, 55, 55, 45).  For every
\* other argument explored the doubles compare and round as the exact
\* values do.
doubleFallsShort(config, speed, angle) ==
  /\ config = SCORING_CONFIG.jab
  /\ <<speed, angle>>
       \in {<<50, 95>>, <<50, 120>>, <<55, 105>>, <<230, 109>>, <<280, 99>>}

\* A value just below the fraction, above every smaller value explored.
justBelow(score) == [n |-> 10 * score.n - 1, d |-> 10 * score.d]

getGrade(score) ==
  IF atLeast(score, 95) THEN "S"
  ELSE IF atLeast(score, 90) THEN "A+"
  ELSE IF atLeast(score, 85) THEN "A"
  ELSE IF atLeast(score, 80) THEN "A-"
  ELSE IF atLeast(score, 75) THEN "B+"
  ELSE IF atLeast(score, 70) THEN "B"
  ELSE IF atLeast(score, 65) THEN "B-"
  ELSE IF atLeast(score, 60) THEN "C+"
  ELSE IF atLeast(score, 55) THEN "C"
  ELSE IF atLeast(score, 50) THEN "C-"
  ELSE IF atLeast(score, 45) THEN "D"
  ELSE "F"

\* generateFeedback: the tier of the text, the index of the message that
\* Math.random picks among the four of the perfect and the great tier, and
\* the issues that the remediation text names.
generateFeedback(speedScore_, formScore_, speed, idealSpeed, angleDeviation, random) ==
  LET avgScore ==
        [n |-> speedScore_.n * formScore_.d + formScore_.n * speedScore_.d,
         d |-> 2 * speedScore_.d * formScore_.d]
      slow == IF below(speedScore_, 60)
              THEN IF 10 * speed < 7 * idealSpeed       \* speedRatio < 0.7
                   THEN <<"snap your punch faster">>
                   ELSE IF 10 * speed > 18 * idealSpeed \* speedRatio > 1.8
                   THEN <<"control your speed more">>
                   ELSE <<>>
              ELSE <<>>
      form == IF below(formScore_, 60)
              THEN IF angleDeviation > 40 THEN <<"extend your arm more">>
                   ELSE <<"watch your form">>
              ELSE <<>>
  IN IF atLeast(avgScore, 95)
     THEN [tier |-> "perfect", message |-> random, issues |-> <<>>]
     ELSE IF atLeast(avgScore, 85)
     THEN [tier |-> "great", message |-> random, issues |-> <<>>]
     ELSE IF atLeast(avgScore, 70)
     THEN [tier |-> "good", message |-> 0, issues |-> <<>>]
     ELSE [tier |-> "remediation", message |-> 0, issues |-> slow \o form]

\* calculateScore(punchData), where random is the index that Math.random
\* gives to generateFeedback.
calculateScore(punchData, random) ==
  IF punchData.punchType = "none"
  THEN [speedScore |-> 0, formScore |-> 0, totalScore |-> 0,
        feedback |-> [tier |-> "No punch detected", message |-> 0,
                      issues |-> <<>>],
        grade |-> "F"]
  ELSE
    LET config == configOf(punchData.punchType)
        speedScore_ == speedScore(config, punchData.speed)
        formScore_ == formScore(config, punchData.angle)
        exact == weighted(config, speedScore_, formScore_)
        totalScore ==
          IF doubleFallsShort(config, punchData.speed, punchData.angle)
          THEN justBelow(exact) ELSE exact
        angleDeviation == abs(punchData.angle - config.idealAngle)
    IN [speedScore |-> MathRound(speedScore_),
        formScore |-> MathRound(formScore_),
        totalScore |-> MathRound(totalScore),
        feedback |-> generateFeedback(speedScore_, formScore_,
                                      punchData.speed, config.idealSpeed,
                                      angleDeviation, random),
        grade |-> getGrade(totalScore),
        isPerfect |-> atLeast(totalScore, 95),
        isGreat |-> atLeast(totalScore, 85),
        isGood |-> atLeast(totalScore, 70),
        details |-> [speed |-> punchData.speed, angle |-> punchData.angle,
                     idealSpeed |-> config.idealSpeed,
                     idealAngle |-> config.idealAngle,
                     angleDeviation |-> angleDeviation]]

\* calculateBonusPoints(punchData, context), for a context whose three
\* fields are numbers
calculateBonusPoints(punchData, context) ==
  (IF punchData.isPerfect THEN 50 ELSE IF punchData.isGreat THEN 25 ELSE 0)
    + (IF context.comboCount >= 5 THEN 10 ELSE 0)
    + (IF context.comboCount >= 10 THEN 25 ELSE 0)
    + (IF context.comboCount >= 20 THEN 50 ELSE 0)
    + (IF context.comboCount >= 50 THEN 100 ELSE 0)
    \* timeRemaining && timeRemaining < 1000: 0 is falsy
    + (IF context.timeRemaining # 0 /\ context.timeRemaining < 1000
       THEN 20 ELSE 0)
    + (IF context.consecutivePerfect # 0 /\ context.consecutivePerfect >= 3
       THEN context.consecutivePerfect * 15 ELSE 0)

(***************************************************************************)
(* combo.js (README.md): ComboDrill, the sequence mode.  The object is one *)
(* record; its pending setTimeout callbacks are counted by kind, and the   *)
(* outputs of the last call are what it gave to onScore and whether a      *)
(* TypeError left it.                                                      *)
(***************************************************************************)
COMBOS ==
  [c \in {"1-2", "1-1-2", "1-2-3", "2-3-2", "1-2-5", "1-6-3"} |->
     CASE c = "1-2" -> <<"Jab", "Cross">>
       [] c = "1-1-2" -> <<"Jab", "Jab", "Cross">>
       [] c = "1-2-3" -> <<"Jab", "Cross", "Left Hook">>
       [] c = "2-3-2" -> <<"Cross", "Left Hook", "Cross">>
       [] c = "1-2-5" -> <<"Jab", "Cross", "Left Uppercut">>
       [] c = "1-6-3" -> <<"Jab", "Right Uppercut", "Left Hook">>]

\* The object, its timers and the outputs of the call that is entered.
Combo ==
  [isRunning |-> comboDrill.isRunning,
   currentCombo |-> comboDrill.currentCombo,
   stepIndex |-> comboDrill.stepIndex,
   timers |-> comboTimers,
   out |-> [threw |-> FALSE, onScore |-> <<>>]]

BecomeCombo(x) ==
  /\ comboDrill' = [isRunning |-> x.isRunning,
                    currentCombo |-> x.currentCombo,
                    stepIndex |-> x.stepIndex]
  /\ comboTimers' = x.timers
  /\ comboOut' = x.out
  /\ UNCHANGED <<drillVars, scoringVars, detectorVars>>

\* new ComboDrill(uiElements, onScore)
NoCombo ==
  /\ comboDrill = [isRunning |-> FALSE, currentCombo |-> null, stepIndex |-> 0]
  /\ comboTimers = [show |-> 0, next |-> 0]
  /\ comboOut = [threw |-> FALSE, onScore |-> <<>>]

\* this.currentCombo.sequence
sequence(x) == COMBOS[x.currentCombo]

\* A TypeError leaves the call: a method of undefined was called.
comboThrown(x) == [x EXCEPT !.out.threw = TRUE]

\* nextCombo(), where pick is the combo that Math.random selects
nextCombo(x, pick) ==
  IF ~x.isRunning THEN x
  ELSE [x EXCEPT !.currentCombo = pick, !.stepIndex = 0,
                 !.timers.show = @ + 1]

\* showNextTarget(): it changes the page only, and reads
\* sequence[stepIndex].includes
showNextTarget(x) ==
  IF ~x.isRunning THEN x
  ELSE IF x.stepIndex >= Len(sequence(x)) THEN comboThrown(x)
  ELSE x

comboStart(x, pick) == nextCombo([x EXCEPT !.isRunning = TRUE], pick)

comboStop(x) == [x EXCEPT !.isRunning = FALSE]

\* A handleHit that gives the bonus on every hit.
comboHandleHitAlwaysScores(x) ==
  LET x1 == [x EXCEPT !.stepIndex = @ + 1,
                      !.out.onScore = <<100 * Len(sequence(x))>>]
  IN IF x1.stepIndex >= Len(sequence(x1))
     THEN [x1 EXCEPT !.timers.next = @ + 1]
     ELSE showNextTarget(x1)

\* handleHit(punchData) of ComboDrill
comboHandleHit(x) ==
  LET x1 == [x EXCEPT !.stepIndex = @ + 1]
  IN IF x1.stepIndex >= Len(sequence(x1))
     THEN [x1 EXCEPT !.out.onScore = <<100 * Len(sequence(x1))>>,
                     !.timers.next = @ + 1]
     ELSE showNextTarget(x1)

\* A normalisation that drops every character.
normalizeToEmpty(punch) == ""

\* punch.toLowerCase().replace(/\s/g, '')
normalize(punch) ==
  CASE punch = "Jab" -> "jab"
    [] punch = "Cross" -> "cross"
    [] punch = "Left Hook" -> "lefthook"
    [] punch = "Right Hook" -> "righthook"
    [] punch = "Left Uppercut" -> "leftuppercut"
    [] punch = "Right Uppercut" -> "rightuppercut"
    [] punch = "Left Body" -> "leftbody"
    [] punch = "Right Body" -> "rightbody"

\* checkPunch(detectedPunch, punchData) of ComboDrill; the step after the
\* last one is undefined, and undefined.toLowerCase() is a TypeError.
comboCheckPunch(x, detectedPunch) ==
  IF ~x.isRunning \/ x.currentCombo = null THEN x
  ELSE IF x.stepIndex >= Len(sequence(x)) THEN comboThrown(x)
  ELSE LET requiredPunch == sequence(x)[x.stepIndex + 1]
       IN IF normalize(detectedPunch) = normalize(requiredPunch)
          THEN comboHandleHit(x)
          ELSE x

(***************************************************************************)
(* punch.js: SpeedTracker, PunchCooldown and detectPunch, in the strict    *)
(* version (README.md) and in the arcade version (src/js/punch.js).  Both  *)
(* keep one speedTracker and one punchCooldown for the whole module.       *)
(*                                                                         *)
(* Landmark coordinates are in thousandths of the frame, pixels are whole  *)
(* numbers, and speeds are in 1/SpeedScale pixels per second, which keeps  *)
(* the speeds of the explored frames and their means whole numbers.        *)
(***************************************************************************)
maxHistorySize == 5

SpeedScale == 360

\* The state of the module as one record.
Detector ==
  [variant |-> variant, now |-> now, lastPositions |-> lastPositions,
   velocityHistory |-> velocityHistory, lastPunchTime |-> lastPunchTime,
   lastPunchType |-> lastPunchType, result |-> result,
   observed |-> observed, pushes |-> pushes]

BecomeDetector(d) ==
  /\ variant' = d.variant
  /\ now' = d.now
  /\ lastPositions' = d.lastPositions
  /\ velocityHistory' = d.velocityHistory
  /\ lastPunchTime' = d.lastPunchTime
  /\ lastPunchType' = d.lastPunchType
  /\ result' = d.result
  /\ observed' = d.observed
  /\ pushes' = d.pushes
  /\ UNCHANGED <<drillVars, scoringVars, comboVars>>

\* The module as it is loaded: new SpeedTracker(), new PunchCooldown(...).
Loaded(v) ==
  [variant |-> v, now |-> 0, lastPositions |-> <<>>,
   velocityHistory |-> <<>>, lastPunchTime |-> 0, lastPunchType |-> null,
   result |-> [fn |-> "none"], observed |-> {}, pushes |-> <<>>]

\* The largest r in lo..hi with r * r <= n.
RECURSIVE rootBetween(_, _, _)
rootBetween(n, lo, hi) ==
  IF lo = hi THEN lo
  ELSE LET mid == (lo + hi + 1) \div 2
       IN IF mid * mid <= n THEN rootBetween(n, mid, hi)
          ELSE rootBetween(n, lo, mid - 1)

\* Math.sqrt, for the squares of whole numbers.
sqrt(n) == LET r == rootBetween(n, 0, 1024) IN CASE r * r = n -> r

RECURSIVE reduceSum(_)
reduceSum(history) ==
  IF history = <<>> THEN 0 ELSE Head(history) + reduceSum(Tail(history))

\* Map.set(key, v)
set(map, key, v) == (key :> v) @@ map

\* A reset that forgets the speeds but keeps the last positions.
resetSpeedsOnly(d) ==
  [d EXCEPT !.velocityHistory = <<>>, !.observed = {}, !.pushes = <<>>]

\* SpeedTracker.reset()
reset(d) ==
  [d EXCEPT !.lastPositions = <<>>, !.velocityHistory = <<>>,
            !.observed = {}, !.pushes = <<>>]

\* history.push(instantSpeed) that forgets the newest speed instead of the
\* oldest.
pushDropNewest(history, instantSpeed) ==
  IF Len(history) + 1 > maxHistorySize THEN history
  ELSE Append(history, instantSpeed)

\* history.push(instantSpeed); if (history.length > maxHistorySize)
\* history.shift()
push(history, instantSpeed) ==
  LET pushed == Append(history, instantSpeed)
  IN IF Len(pushed) > maxHistorySize THEN Tail(pushed) ELSE pushed

\* SpeedTracker.updateSpeed(landmarkId, x, y): the tracker after the call
\* and the speed it returns.
updateSpeed(d, landmarkId, x, y) ==
  LET d0 == [d EXCEPT !.observed = @ \cup {landmarkId},
                      !.pushes = IF landmarkId \in DOMAIN @ THEN @
                                 ELSE set(@, landmarkId, 0)]
  IN IF landmarkId \notin DOMAIN d0.lastPositions
     THEN [det |-> [d0 EXCEPT
                      !.lastPositions =
                         set(@, landmarkId, [x |-> x, y |-> y, time |-> d0.now]),
                      !.velocityHistory = set(@, landmarkId, <<>>)],
           speed |-> 0]
     ELSE LET last == d0.lastPositions[landmarkId]
              dx == x - last.x
              dy == y - last.y
              dt == d0.now - last.time       \* milliseconds
          IN IF dt = 0 THEN [det |-> d0, speed |-> 0]
             ELSE LET instantSpeed ==
                        (sqrt(dx * dx + dy * dy) * 1000 * SpeedScale) \div dt
                      history ==
                        push(IF landmarkId \in DOMAIN d0.velocityHistory
                             THEN d0.velocityHistory[landmarkId]
                             ELSE <<>>,
                             instantSpeed)
                  IN [det |-> [d0 EXCEPT
                                 !.velocityHistory =
                                    set(@, landmarkId, history),
                                 !.lastPositions =
                                    set(@, landmarkId,
                                        [x |-> x, y |-> y, time |-> d0.now]),
                                 !.pushes[landmarkId] = @ + 1],
                      speed |-> reduceSum(history) \div Len(history)]

cooldownMs(v) == IF v = "strict" THEN 350 ELSE 250

\* A gate that is always open.
canPunchAlways(d, punchType) ==
  [det |-> [d EXCEPT !.lastPunchTime = d.now, !.lastPunchType = punchType],
   ok |-> TRUE]

\* A gate that looks at the time only.
canPunchTimeOnly(d, punchType) ==
  IF d.now - d.lastPunchTime > cooldownMs(d.variant)
  THEN [det |-> [d EXCEPT !.lastPunchTime = d.now,
                          !.lastPunchType = punchType],
        ok |-> TRUE]
  ELSE [det |-> d, ok |-> FALSE]

\* PunchCooldown.canPunch of the strict version, keyed by class.
canPunchStrict(d, punchType) ==
  LET timeSinceLastPunch == d.now - d.lastPunchTime
  IN IF timeSinceLastPunch > cooldownMs(d.variant)
          \/ d.lastPunchType # punchType
     THEN [det |-> [d EXCEPT !.lastPunchTime = d.now,
                             !.lastPunchType = punchType],
           ok |-> TRUE]
     ELSE [det |-> d, ok |-> FALSE]

\* punchType.includes('Left') || punchType === 'Jab'
leftHand(punchType) ==
  punchType \in {"Jab", "Left Hook", "Left Uppercut", "Left Body"}

\* PunchCooldown.canPunch of the arcade version, keyed by hand.
canPunchArcade(d, punchType) ==
  LET isLeft == leftHand(punchType)
      wasLeft == d.lastPunchType # null /\ leftHand(d.lastPunchType)
      isSameHand == \/ isLeft /\ wasLeft
                    \/ ~isLeft /\ ~wasLeft /\ d.lastPunchType # null
  IN IF ~isSameHand \/ d.now - d.lastPunchTime > cooldownMs(d.variant)
     THEN [det |-> [d EXCEPT !.lastPunchTime = d.now,
                             !.lastPunchType = punchType],
           ok |-> TRUE]
     ELSE [det |-> d, ok |-> FALSE]

\* punchCooldown.canPunch(punchType): the gate after the call and its answer.
canPunch(d, punchType) ==
  IF d.variant = "strict" THEN canPunchStrict(d, punchType)
  ELSE canPunchArcade(d, punchType)

\* resetPunchDetection(): speedTracker.reset(); punchCooldown.reset()
resetPunchDetection(d) ==
  [reset(d) EXCEPT !.lastPunchTime = 0, !.lastPunchType = null,
                   !.result = [fn |-> "resetPunchDetection"]]

\* detectPunch(landmarks, width, height) is called for a frame of this size.
width == 1000
height == 1000

\* An entry of the landmark array that is undefined.
Absent == [x |-> -1, y |-> -1]

present(landmark) == landmark # Absent

\* landmark.x * width, for a coordinate in thousandths
px(v, size) == (v * size) \div 1000

\* computeAngle(a, b, c) of utils.js: the angle at b in degrees, for the
\* angles that are multiples of 45 degrees.
computeAngle(a, b, c) ==
  LET ux == a.x - b.x
      uy == a.y - b.y
      vx == c.x - b.x
      vy == c.y - b.y
      dot == ux * vx + uy * vy
      cross == ux * vy - uy * vx
  IN CASE cross = 0 /\ dot > 0 -> 0
       [] cross # 0 /\ abs(cross) = dot -> 45
       [] cross # 0 /\ dot = 0 -> 90
       [] cross # 0 /\ abs(cross) = -dot -> 135
       [] cross = 0 /\ dot < 0 -> 180

\* return { punch, extras: { leftSpeed, rightSpeed, ... } }
returned(d, punch, leftSpeed, rightSpeed) ==
  [d EXCEPT !.result = [fn |-> "detectPunch", threw |-> FALSE,
                        punch |-> punch, leftSpeed |-> leftSpeed,
                        rightSpeed |-> rightSpeed]]

\* A TypeError leaves detectPunch: a property of undefined was read.
thrown(d) ==
  [d EXCEPT !.result = [fn |-> "detectPunch", threw |-> TRUE,
                        punch |-> null, leftSpeed |-> 0, rightSpeed |-> 0]]

\* The kinematics of one arm in the strict version, each 0 when a landmark
\* it needs is absent.
strictArm(speed, shoulder, elbow, wrist, hip) ==
  [speed |-> speed,
   angle |-> IF present(shoulder) /\ present(elbow) /\ present(wrist)
             THEN computeAngle(shoulder, elbow, wrist) ELSE 0,
   extension |-> IF present(wrist) /\ present(shoulder)
                 THEN abs(px(wrist.x, width) - px(shoulder.x, width)) ELSE 0,
   wristY |-> IF present(wrist) THEN px(wrist.y, height) ELSE 0,
   shoulderY |-> IF present(shoulder) THEN px(shoulder.y, height) ELSE 0,
   hipY |-> IF present(hip) THEN px(hip.y, height) ELSE 0]

\* The predicates of a class in the strict version, without the gate.
strictRule(punchType, a) ==
  CASE punchType \in {"Jab", "Cross"} ->
         /\ a.speed > 70 * SpeedScale
         /\ a.extension > 100
         /\ a.angle > 135
         /\ a.wristY < a.shoulderY + 50
         /\ a.wristY > a.shoulderY - 50
    [] isHook(punchType) ->
         /\ 100 * a.speed > 85 * 70 * SpeedScale
         /\ a.angle < 110
         /\ a.wristY < a.shoulderY + 30
         /\ a.wristY > a.shoulderY - 30
    [] isUppercut(punchType) ->
         /\ a.speed > 60 * SpeedScale
         /\ a.shoulderY - a.wristY > 80
         /\ a.angle < 100
         /\ a.wristY < a.shoulderY
    [] isBody(punchType) ->
         /\ 10 * a.speed > 8 * 70 * SpeedScale
         /\ 10 * a.extension > 8 * 100
         /\ a.wristY > a.hipY - 100
         /\ a.wristY < a.hipY + 50
         /\ a.angle > 120

\* The kinematics of one arm in the arcade version: the extension ratio is
\* kept as extensionDist / shoulderWidth, and the heights in thousandths.
arcadeArm(speed, shoulder, elbow, wrist, shoulderWidth) ==
  [speed |-> speed,
   angle |-> computeAngle(shoulder, elbow, wrist),
   extensionDist |-> px(abs(wrist.x - shoulder.x), width),
   shoulderWidth |-> shoulderWidth,
   wristY |-> wrist.y,
   shoulderY |-> shoulder.y]

\* extRatio > 0.5 and extRatio < 0.7, where a division by 0 gives Infinity
\* or NaN.
aboveMinExtRatio(a) ==
  IF a.shoulderWidth = 0 THEN a.extensionDist > 0
  ELSE 10 * a.extensionDist > 5 * a.shoulderWidth

belowHookExtRatio(a) ==
  IF a.shoulderWidth = 0 THEN FALSE
  ELSE 10 * a.extensionDist < 7 * a.shoulderWidth

\* The predicates of a class in the arcade version, without the gate.
arcadeRule(punchType, a) ==
  CASE punchType \in {"Jab", "Cross"} ->
         a.speed > 40 * SpeedScale /\ aboveMinExtRatio(a)
    [] isHook(punchType) ->
         /\ a.speed > 40 * SpeedScale
         /\ belowHookExtRatio(a)
         /\ a.wristY < a.shoulderY + 200
    [] isUppercut(punchType) ->
         /\ a.speed > 40 * SpeedScale
         /\ a.wristY > a.shoulderY - 200
         /\ a.angle < 120

rule(v, punchType, k) ==
  LET a == IF leftHand(punchType) THEN k.left ELSE k.right
  IN IF v = "strict" THEN strictRule(punchType, a)
     ELSE arcadeRule(punchType, a)

\* An order of the checks that begins with Cross.
orderCrossFirst(v) ==
  <<"Cross", "Jab", "Left Hook", "Right Hook",
    "Left Uppercut", "Right Uppercut">>
    \o (IF v = "strict" THEN <<"Left Body", "Right Body">> ELSE <<>>)

\* The order of the checks of detectPunch.
order(v) ==
  <<"Jab", "Cross", "Left Hook", "Right Hook",
    "Left Uppercut", "Right Uppercut">>
    \o (IF v = "strict" THEN <<"Left Body", "Right Body">> ELSE <<>>)

\* The checks from the i-th on: the first class whose predicates hold and
\* whose canPunch answers true is returned.
RECURSIVE checks(_, _, _)
checks(d, k, i) ==
  IF i > Len(order(d.variant)) THEN [det |-> d, punch |-> null]
  ELSE LET punchType == order(d.variant)[i]
       IN IF rule(d.variant, punchType, k)
          THEN LET gate == canPunch(d, punchType)
               IN IF gate.ok THEN [det |-> gate.det, punch |-> punchType]
                  ELSE checks(d, k, i + 1)
          ELSE checks(d, k, i + 1)

\* The landmarks that are read without a test for undefined: by
\* analyzeStance in the strict version, by computeAngle and the extension
\* ratio in the arcade version.
dereferenced(v, landmarks) ==
  IF v = "strict"
  THEN {landmarks.leftShoulder, landmarks.rightShoulder, landmarks.nose}
  ELSE {landmarks.leftShoulder, landmarks.leftElbow, landmarks.leftWrist,
        landmarks.rightShoulder, landmarks.rightElbow, landmarks.rightWrist}

\* The kinematics of both arms, from a frame in which every landmark that
\* is dereferenced is present.
kinematics(v, landmarks, leftSpeed, rightSpeed) ==
  LET shoulderWidth ==
        px(abs(landmarks.leftShoulder.x - landmarks.rightShoulder.x), width)
  IN IF v = "strict"
     THEN [left |-> strictArm(leftSpeed, landmarks.leftShoulder,
                              landmarks.leftElbow, landmarks.leftWrist,
                              landmarks.leftHip),
           right |-> strictArm(rightSpeed, landmarks.rightShoulder,
                               landmarks.rightElbow, landmarks.rightWrist,
                               landmarks.rightHip)]
     ELSE [left |-> arcadeArm(leftSpeed, landmarks.leftShoulder,
                              landmarks.leftElbow, landmarks.leftWrist,
                              shoulderWidth),
           right |-> arcadeArm(rightSpeed, landmarks.rightShoulder,
                               landmarks.rightElbow, landmarks.rightWrist,
                               shoulderWidth)]

detectPunch(d, landmarks) ==
  IF landmarks.length < 17 THEN returned(d, null, 0, 0)
  ELSE
    LET leftWrist == landmarks.leftWrist
        rightWrist == landmarks.rightWrist
        l == IF present(leftWrist)
             THEN updateSpeed(d, 15, px(leftWrist.x, width),
                              px(leftWrist.y, height))
             ELSE [det |-> d, speed |-> 0]
        r == IF present(rightWrist)
             THEN updateSpeed(l.det, 16, px(rightWrist.x, width),
                              px(rightWrist.y, height))
             ELSE [det |-> l.det, speed |-> 0]
    IN IF Absent \in dereferenced(d.variant, landmarks) THEN thrown(r.det)
       ELSE
         LET k == kinematics(d.variant, landmarks, l.speed, r.speed)
             c == checks(r.det, k, 1)
         IN returned(c.det, c.punch, l.speed, r.speed)

(***************************************************************************)
(* Event loop and clock                                                    *)
(***************************************************************************)
\* The event loop runs the callback of the due timer t; punchType is the
\* random pick of the announce-delay callback.
\* A reaction timeout is an outcome of the target it was armed for; the
\* history counts it when that is the target announced last.
fire(s, t, punchType) ==
  LET s1 == [s EXCEPT !.timers = @ (-) SetToBag({t})]
  IN IF t.kind = "announce" THEN announceCallback(s1, punchType)
     ELSE handleMiss(IF t.handle THEN Resolve(s1) ELSE s1)

\* d milliseconds pass.
tick(s, d) ==
  [s EXCEPT !.timers = LET Later(t) == [t EXCEPT !.rem = @ - d]
                       IN BagOfAll(Later, @),
            !.sinceLastHit = Min(@ + d, comboResetDelay + 1)]

(***************************************************************************)
(* Actions                                                                 *)
(***************************************************************************)
NoData == [speedScore |-> 0, formScore |-> 0]

PunchData ==
  {NoData,
   [speedScore |-> 80, formScore |-> 80],
   [speedScore |-> 100, formScore |-> 100]}

\* The state after new FocusMittDrill(...).
Constructed ==
  [isRunning |-> FALSE, activePunch |-> null, drillTimeout |-> null,
   comboCount |-> 0, comboMultiplier |-> 10, level |-> 1, hitsInLevel |-> 0,
   totalHits |-> 0, totalMisses |-> 0, perfectHits |-> 0,
   availablePunchTypes |-> <<"Jab", "Cross">>,
   sinceLastHit |-> comboResetDelay + 1, timers |-> EmptyBag,
   lastPoints |-> 0, outcomes |-> 0, summary |-> <<>>, bestCombo |-> 0]

Is(s) ==
  /\ isRunning = s.isRunning
  /\ activePunch = s.activePunch
  /\ drillTimeout = s.drillTimeout
  /\ comboCount = s.comboCount
  /\ comboMultiplier = s.comboMultiplier
  /\ level = s.level
  /\ hitsInLevel = s.hitsInLevel
  /\ totalHits = s.totalHits
  /\ totalMisses = s.totalMisses
  /\ perfectHits = s.perfectHits
  /\ availablePunchTypes = s.availablePunchTypes
  /\ sinceLastHit = s.sinceLastHit
  /\ timers = s.timers
  /\ lastPoints = s.lastPoints
  /\ outcomes = s.outcomes
  /\ summary = s.summary
  /\ bestCombo = s.bestCombo

\* No function of scoring.js has been called.
NoCall == call = [fn |-> "none"] /\ value = <<>>

\* punch.js is loaded and has seen no frame.
NoFrame ==
  /\ variant = "arcade"
  /\ now = 0
  /\ lastPositions = <<>>
  /\ velocityHistory = <<>>
  /\ lastPunchTime = 0
  /\ lastPunchType = null
  /\ result = [fn |-> "none"]
  /\ observed = {}
  /\ pushes = <<>>

Init == Is(Constructed) /\ NoCall /\ NoFrame /\ NoCombo

Start == Become(start(Entered))

Stop == Become(stop(Entered))

CheckPunch(detectedPunch, punchData) ==
  Become(checkPunch(Entered, detectedPunch, punchData))

\* The event loop runs the callback of the pending timer t.  Delays are not
\* measured here: the callback of any pending timer may be the next to run.
Fire(t) ==
  /\ BagIn(t, timers)
  /\ \E punchType \in Range(availablePunchTypes) :
       Become(fire(Entered, t, punchType))

\* The same with the clock: only a timer that is due runs.
FireDue(t) == t.rem = 0 /\ Fire(t)

\* Time passes, by no more than the time to the next deadline.
Tick(d) ==
  /\ d > 0
  /\ \A t \in BagToSet(timers) : d <= t.rem
  /\ Become(tick(Entered, d))

\* The clock steps that are explored: to the next deadline, or LatePunch
\* milliseconds when no deadline comes earlier.
TickSteps == {LatePunch} \cup {t.rem : t \in BagToSet(timers)}

\* The part of the state space that is explored: a session played from
\* scratch up to MaxHits hits, and around every level change the hits that
\* end a level and begin the next one.
Capped ==
  /\ BagCardinality(timers') <= MaxTimers
  /\ totalHits' <= Max(totalHits, MaxHits) \/ hitsInLevel' \in {0, 1}
  /\ totalMisses' <= MaxMisses
  /\ perfectHits' <= MaxPerfect

\* The punch data tried with a detected punch: checkPunch reads it only when
\* the punch is the active target.
DataFor(p) == IF p = activePunch THEN PunchData ELSE {NoData}

\* Any caller: the calls and the timers in any order.
Next ==
  \/ Start /\ Capped
  \/ Stop
  \/ \E p \in PUNCH_TYPES : \E d \in DataFor(p) : CheckPunch(p, d) /\ Capped
  \/ \E t \in BagToSet(timers) : Fire(t) /\ Capped

Spec == Init /\ [][Next]_vars

\* One session at a time, with the clock: start() is called on a stopped
\* drill whose timers have all run, and every timer runs when it is due.
NextClock ==
  \/ (~isRunning /\ timers = EmptyBag) /\ Start
  \/ isRunning /\ Stop
  \/ \E p \in PUNCH_TYPES : \E d \in DataFor(p) : CheckPunch(p, d) /\ Capped
  \/ \E t \in BagToSet(timers) : FireDue(t) /\ Capped
  \/ \E d \in TickSteps : Tick(d)

SpecClock == Init /\ [][NextClock]_vars

(***************************************************************************)
(* SpecLevels begins either with the constructed drill or with a session   *)
(* that start() began and that was played, with the handlers above, to the *)
(* last hit of some level: in each round the announce-delay callback shows *)
(* Jab and a Jab without punch data answers it.                            *)
(***************************************************************************)
round(s) ==
  LET a == CHOOSE t \in BagToSet(s.timers) : t.kind = "announce"
  IN checkPunch(fire(s, a, "Jab"), "Jab", NoData)

RECURSIVE rounds(_, _)
rounds(s, n) == IF n = 0 THEN s ELSE round(rounds(s, n - 1))

\* The session at the last hit of level 1, 2, ...: hitsPerLevel rounds apart.
Played1 == rounds(start(Constructed), hitsPerLevel - 1)
Played2 == rounds(Played1, hitsPerLevel)
Played3 == rounds(Played2, hitsPerLevel)
Played4 == rounds(Played3, hitsPerLevel)
Played5 == rounds(Played4, hitsPerLevel)
Played6 == rounds(Played5, hitsPerLevel)
Played7 == rounds(Played6, hitsPerLevel)
Played8 == rounds(Played7, hitsPerLevel)
Played9 == rounds(Played8, hitsPerLevel)
Played10 == rounds(Played9, hitsPerLevel)
Played11 == rounds(Played10, hitsPerLevel)
Played12 == rounds(Played11, hitsPerLevel)
Played13 == rounds(Played12, hitsPerLevel)
Played14 == rounds(Played13, hitsPerLevel)

PlayedTo(lvl) ==
  <<Played1, Played2, Played3, Played4, Played5, Played6, Played7,
    Played8, Played9, Played10, Played11, Played12, Played13, Played14>>[lvl]

InitLevels ==
  /\ NoCall
  /\ NoFrame
  /\ NoCombo
  /\ \/ Is(Constructed)
     \/ \E lvl \in 1..MaxLevels : Is(PlayedTo(lvl))

SpecLevels == InitLevels /\ [][Next]_vars

(***************************************************************************)
(* SpecScoring calls the functions of scoring.js: the initial state draws  *)
(* the call and its arguments, and the step is the call returning.         *)
(***************************************************************************)
Speeds == {5 * k : k \in 0..MaxSpeedSteps}
Angles == 0..MaxAngle

\* The punch types given to calculateScore: none, the keys of
\* SCORING_CONFIG, and the class names of the classifier.
ConfigKeys == {"jab", "cross", "hook"}
OtherTypes == {"none", "left", "right"} \cup PUNCH_TYPES

\* The calls of calculateScore with these punch types, speeds and angles.
ScoreCalls(types, speeds, angles) ==
  {[fn |-> "calculateScore", punchType |-> t, speed |-> v, angle |-> a] :
     t \in types, v \in speeds, a \in angles}

\* The remaining time of a challenge, in ms.
TimesRemaining == {0, 1, 999, 1000, 2500}

BonusCalls ==
  {[fn |-> "calculateBonusPoints",
    punchData |-> [isPerfect |-> p, isGreat |-> g],
    context |-> [comboCount |-> n, timeRemaining |-> t,
                 consecutivePerfect |-> c]] :
     p \in BOOLEAN, g \in BOOLEAN, n \in 0..MaxCombo,
     t \in TimesRemaining, c \in 0..MaxStreak}

\* The calls of a function of scoring.js: for calculateScore every speed and
\* angle for the three configurations that differ, and every 75 px/s and
\* 15 degrees for the other punch types.
Calls(fn) ==
  CASE fn = "calculateComboMultiplier" ->
         {[fn |-> "calculateComboMultiplier", comboCount |-> n] :
            n \in 0..MaxCombo}
    [] fn = "calculateScore" ->
         ScoreCalls(ConfigKeys, Speeds, Angles)
           \cup ScoreCalls(OtherTypes, {w \in Speeds : w % 75 = 0},
                           {b \in Angles : b % 15 = 0})
    [] fn = "calculateBonusPoints" -> BonusCalls

CalculateComboMultiplier ==
  /\ call.fn = "calculateComboMultiplier"
  /\ value = <<>>
  /\ value' = <<calculateComboMultiplier(call.comboCount)>>
  /\ UNCHANGED <<call, drillVars, detectorVars, comboVars>>

InitScoring ==
  /\ Is(Constructed)
  /\ NoFrame
  /\ NoCombo
  /\ \E fn \in {"calculateComboMultiplier", "calculateScore",
                 "calculateBonusPoints"} : call \in Calls(fn)
  /\ value = <<>>

\* calculateScore returns; random is what Math.random gives.
CalculateScore(random) ==
  /\ call.fn = "calculateScore"
  /\ value = <<>>
  /\ value' = <<calculateScore(call, random)>>
  /\ UNCHANGED <<call, drillVars, detectorVars, comboVars>>

CalculateBonusPoints ==
  /\ call.fn = "calculateBonusPoints"
  /\ value = <<>>
  /\ value' = <<calculateBonusPoints(call.punchData, call.context)>>
  /\ UNCHANGED <<call, drillVars, detectorVars, comboVars>>

NextScoring ==
  \/ CalculateComboMultiplier
  \/ CalculateBonusPoints
  \/ \E random \in 0..3 : CalculateScore(random)

SpecScoring == InitScoring /\ [][NextScoring]_vars

(***************************************************************************)
(* Frames.  A frame is the landmark array of the pose provider: its length *)
(* and the entries that detectPunch reads.  The body stands still with the *)
(* shoulders 200 apart, and each arm is in one of six postures, chosen so  *)
(* that every elbow angle is a multiple of 45 degrees and every wrist      *)
(* movement a whole number of pixels.                                      *)
(***************************************************************************)
Postures == {"guard", "straight", "hook", "upper", "low", "body"}

\* The elbow and the wrist of an arm: dx is counted outwards from the
\* shoulder, dy downwards.
Arm(side, posture) ==
  LET shoulder == IF side = "left" THEN [x |-> 600, y |-> 300]
                  ELSE [x |-> 400, y |-> 300]
      outwards == IF side = "left" THEN 1 ELSE -1
      at(dx, dy) == [x |-> shoulder.x + outwards * dx, y |-> shoulder.y + dy]
  IN CASE posture = "guard" ->
            [shoulder |-> shoulder, elbow |-> at(-30, -10), wrist |-> at(-50, 0)]
       [] posture = "straight" ->
            [shoulder |-> shoulder, elbow |-> at(125, 0), wrist |-> at(250, 0)]
       [] posture = "hook" ->
            [shoulder |-> shoulder, elbow |-> at(50, 50), wrist |-> at(100, 0)]
       [] posture = "upper" ->
            [shoulder |-> shoulder, elbow |-> at(150, -50),
             wrist |-> at(100, -200)]
       [] posture = "low" ->
            [shoulder |-> shoulder, elbow |-> at(150, 50),
             wrist |-> at(100, 200)]
       [] posture = "body" ->
            [shoulder |-> shoulder, elbow |-> at(50, 100),
             wrist |-> at(100, 200)]

Frame(left, right) ==
  [length |-> 33,
   nose |-> [x |-> 500, y |-> 150],
   leftShoulder |-> Arm("left", left).shoulder,
   rightShoulder |-> Arm("right", right).shoulder,
   leftElbow |-> Arm("left", left).elbow,
   rightElbow |-> Arm("right", right).elbow,
   leftWrist |-> Arm("left", left).wrist,
   rightWrist |-> Arm("right", right).wrist,
   leftHip |-> [x |-> 600, y |-> 550],
   rightHip |-> [x |-> 400, y |-> 550]]

\* Frames with all landmarks: the left arm in each posture, and the right
\* arm straight beside a left arm that is in guard or straight.
WholeFrames ==
  {Frame(p, "guard") : p \in Postures}
    \cup {Frame("guard", "straight"), Frame("straight", "straight")}

\* Frames of fewer than 17 landmarks, or with one entry undefined.
BrokenFrames ==
  {[Frame("straight", "guard") EXCEPT !.length = 0],
   [Frame("straight", "guard") EXCEPT !.nose = Absent],
   [Frame("straight", "guard") EXCEPT !.leftShoulder = Absent],
   [Frame("straight", "guard") EXCEPT !.leftElbow = Absent],
   [Frame("straight", "guard") EXCEPT !.leftWrist = Absent]}

Frames == WholeFrames \cup BrokenFrames

\* The time from one frame to the next, and twice that when a frame is
\* dropped.
FrameTime == 200
FrameTimes == {FrameTime, 2 * FrameTime}

(***************************************************************************)
(* SpecDetector: the pose provider calls detectPunch frame after frame,    *)
(* and the application calls resetPunchDetection.                          *)
(***************************************************************************)
IsDetector(d) ==
  /\ variant = d.variant
  /\ now = d.now
  /\ lastPositions = d.lastPositions
  /\ velocityHistory = d.velocityHistory
  /\ lastPunchTime = d.lastPunchTime
  /\ lastPunchType = d.lastPunchType
  /\ result = d.result
  /\ observed = d.observed
  /\ pushes = d.pushes

\* The pose provider delivers a frame dt after the previous one.
DetectPunch(landmarks, dt) ==
  /\ now + dt <= MaxNow
  /\ BecomeDetector(detectPunch([Detector EXCEPT !.now = @ + dt], landmarks))

ResetPunchDetection == BecomeDetector(resetPunchDetection(Detector))

\* Time passes until the next frame.
Elapse ==
  /\ now + FrameTime <= MaxNow
  /\ BecomeDetector([Detector EXCEPT !.now = @ + FrameTime])

InitDetector ==
  /\ Is(Constructed)
  /\ NoCall
  /\ NoCombo
  /\ \E v \in {"strict", "arcade"} : IsDetector(Loaded(v))

NextDetector ==
  \/ \E landmarks \in Frames, dt \in FrameTimes : DetectPunch(landmarks, dt)
  \/ ResetPunchDetection

SpecDetector == InitDetector /\ [][NextDetector]_vars

(***************************************************************************)
(* SpecTracker: a SpeedTracker called directly.                            *)
(***************************************************************************)
TrackerPoints ==
  {[x |-> 0, y |-> 0], [x |-> 150, y |-> 200]}

UpdateSpeed(landmarkId, x, y) ==
  LET u == updateSpeed(Detector, landmarkId, x, y)
  IN BecomeDetector([u.det EXCEPT !.result =
                       [fn |-> "updateSpeed", landmarkId |-> landmarkId,
                        speed |-> u.speed]])

Reset == BecomeDetector([reset(Detector) EXCEPT !.result = [fn |-> "reset"]])

InitTracker ==
  Is(Constructed) /\ NoCall /\ NoCombo /\ IsDetector(Loaded("arcade"))

NextTracker ==
  \/ \E landmarkId \in {15, 16}, p \in TrackerPoints :
       UpdateSpeed(landmarkId, p.x, p.y)
  \/ Reset
  \/ Elapse

SpecTracker == InitTracker /\ [][NextTracker]_vars

(***************************************************************************)
(* SpecHistory: a SpeedTracker that is given the two wrists frame after    *)
(* frame, as detectPunch does: first the left wrist (15), then in the same *)
(* frame the right wrist (16).                                             *)
(***************************************************************************)
Sample(landmarkId, x, y, dt) ==
  /\ now + dt <= MaxSamples * FrameTime
  /\ LET u == updateSpeed([Detector EXCEPT !.now = @ + dt], landmarkId, x, y)
     IN BecomeDetector([u.det EXCEPT !.result =
                          [fn |-> "updateSpeed", landmarkId |-> landmarkId,
                           speed |-> u.speed]])

NextHistory ==
  \E p \in TrackerPoints :
    \/ result.fn = "none" /\ Sample(15, p.x, p.y, 0)
    \/ /\ result.fn = "updateSpeed"
       /\ result.landmarkId = 15
       /\ Sample(16, p.x, p.y, 0)
    \/ /\ result.fn = "updateSpeed"
       /\ result.landmarkId = 16
       /\ Sample(15, p.x, p.y, FrameTime)

SpecHistory == InitTracker /\ [][NextHistory]_vars

(***************************************************************************)
(* SpecCombo: the application starts and stops the drill and hands it the  *)
(* punches of the classifier; the event loop runs the callbacks.           *)
(***************************************************************************)
\* No more than MaxComboTimers callbacks are pending.
ComboCapped(x) == x.timers.show + x.timers.next <= MaxComboTimers

StartCombo(pick) ==
  /\ ComboCapped(comboStart(Combo, pick))
  /\ BecomeCombo(comboStart(Combo, pick))

StopCombo == BecomeCombo(comboStop(Combo))

CheckPunchCombo(detectedPunch) ==
  /\ ComboCapped(comboCheckPunch(Combo, detectedPunch))
  /\ BecomeCombo(comboCheckPunch(Combo, detectedPunch))

\* The callback of setTimeout(() => this.showNextTarget(), 1500) runs.
FireShowNextTarget ==
  /\ comboTimers.show > 0
  /\ BecomeCombo(showNextTarget([Combo EXCEPT !.timers.show = @ - 1]))

\* The callback of setTimeout(() => this.nextCombo(), 1000) runs.
FireNextCombo(pick) ==
  /\ comboTimers.next > 0
  /\ BecomeCombo(nextCombo([Combo EXCEPT !.timers.next = @ - 1], pick))

InitCombo == Is(Constructed) /\ NoCall /\ NoFrame /\ NoCombo

NextCombo ==
  \/ \E pick \in DOMAIN COMBOS : StartCombo(pick)
  \/ StopCombo
  \/ \E detectedPunch \in PUNCH_TYPES : CheckPunchCombo(detectedPunch)
  \/ FireShowNextTarget
  \/ \E pick \in DOMAIN COMBOS : FireNextCombo(pick)

SpecCombo == InitCombo /\ [][NextCombo]_vars

\* The event loop runs every callback that is due.
SpecComboFair ==
  /\ SpecCombo
  /\ WF_vars(FireShowNextTarget)
  /\ WF_vars(\E pick \in DOMAIN COMBOS : FireNextCombo(pick))

(***************************************************************************)
(* analyzeStance of the strict punch.js (README.md), on the shoulders and  *)
(* the nose of a frame; coordinates in thousandths of a frame of 1000 px.  *)
(***************************************************************************)
\* The tips in the order of the checks.
stanceTips ==
  <<"Keep shoulders level", "Turn body slightly - show your side",
    "Keep head centered and chin tucked">>

\* An analyzeStance that checks the head first.
analyzeStanceHeadFirst(landmarks, w, h) ==
  LET shoulderDiff ==
        px(abs(landmarks.leftShoulder.y - landmarks.rightShoulder.y), h)
      shoulderWidth ==
        px(abs(landmarks.leftShoulder.x - landmarks.rightShoulder.x), w)
      twiceOffCentre ==
        abs(px(2 * landmarks.nose.x, w)
              - px(landmarks.leftShoulder.x + landmarks.rightShoulder.x, w))
      t1 == IF twiceOffCentre > 2 * 80 THEN <<stanceTips[3]>> ELSE <<>>
      t2 == IF shoulderDiff > 50 THEN t1 \o <<stanceTips[1]>> ELSE t1
      t3 == IF shoulderWidth < 100 THEN t2 \o <<stanceTips[2]>> ELSE t2
  IN [isGood |-> t3 = <<>>, tips |-> t3, shoulderWidth |-> shoulderWidth,
      shoulderLevel |-> shoulderDiff < 50]

\* analyzeStance(landmarks, width, height); the head is off centre by more
\* than 80 px when twice the distance is more than 160 px.
analyzeStance(landmarks, w, h) ==
  LET shoulderDiff ==
        px(abs(landmarks.leftShoulder.y - landmarks.rightShoulder.y), h)
      first == IF shoulderDiff > 50
               THEN [isGood |-> FALSE, tips |-> <<stanceTips[1]>>]
               ELSE [isGood |-> TRUE, tips |-> <<>>]
      shoulderWidth ==
        px(abs(landmarks.leftShoulder.x - landmarks.rightShoulder.x), w)
      second == IF shoulderWidth < 100
                THEN [isGood |-> FALSE, tips |-> first.tips \o <<stanceTips[2]>>]
                ELSE first
      twiceOffCentre ==
        abs(px(2 * landmarks.nose.x, w)
              - px(landmarks.leftShoulder.x + landmarks.rightShoulder.x, w))
      third == IF twiceOffCentre > 2 * 80
              THEN [isGood |-> FALSE, tips |-> second.tips \o <<stanceTips[3]>>]
              ELSE second
  IN [isGood |-> third.isGood, tips |-> third.tips,
      shoulderWidth |-> shoulderWidth, shoulderLevel |-> shoulderDiff < 50]

\* Frames for analyzeStance: the right shoulder at (400, 300) or (450, 300),
\* the left shoulder and the nose on both sides of each threshold.
StanceFrames ==
  {[Frame("guard", "guard") EXCEPT
      !.leftShoulder = [x |-> lx, y |-> ly],
      !.rightShoulder = [x |-> rx, y |-> 300],
      !.nose = [x |-> nx, y |-> 150]] :
     lx \in {450, 549, 550, 600}, ly \in {300, 350, 351},
     rx \in {400, 450}, nx \in {400, 419, 420, 500, 580, 581, 600}}

\* analyzeStance returns.
AnalyzeStance ==
  /\ call.fn = "analyzeStance"
  /\ value = <<>>
  /\ value' = <<analyzeStance(call.landmarks, width, height)>>
  /\ UNCHANGED <<call, drillVars, detectorVars, comboVars>>

InitStance ==
  /\ Is(Constructed)
  /\ NoFrame
  /\ NoCombo
  /\ call \in {[fn |-> "analyzeStance", landmarks |-> f] : f \in StanceFrames}
  /\ value = <<>>

NextStance == AnalyzeStance

SpecStance == InitStance /\ [][NextStance]_vars

(***************************************************************************)
(* Loading the configuration: the constructor of PunchCooldown takes any   *)
(* cooldown, and calculateScore takes the angle tolerance of the entry of  *)
(* SCORING_CONFIG as it is.  Neither has a test or a throw statement.      *)
(***************************************************************************)
\* new PunchCooldown(cooldownMs): what the constructor gives, and whether
\* it threw.
PunchCooldown(ms) ==
  [threw |-> FALSE,
   gate |-> [cooldownMs |-> ms, lastPunchTime |-> 0, lastPunchType |-> null]]

\* 0 / 0 in doubles
NaN == [n |-> 0, d |-> 0]

\* The form score of calculateScore for any angle tolerance: with a
\* tolerance of 0 and no deviation the quotient is 0 / 0, and NaN passes
\* Math.min and Math.max; outside the tolerance nothing is divided.
formScoreOfTolerance(config, angle) ==
  LET angleDeviation == abs(angle - config.idealAngle)
  IN [threw |-> FALSE,
      formScore |->
        IF config.angleTolerance > 0 THEN formScore(config, angle)
        ELSE IF angleDeviation <= config.angleTolerance THEN NaN
        ELSE clamp([n |-> Max(160 - 3 * (angleDeviation
                                            - config.angleTolerance), 0),
                    d |-> 2])]

\* The cooldowns, in ms, and the angle tolerances, in degrees, that a
\* configuration is loaded with.
Cooldowns == {50 * k : k \in -7..7}
Tolerances == {0, 25, 30}

ConfigCalls ==
  {[fn |-> "PunchCooldown", cooldownMs |-> ms] : ms \in Cooldowns}
    \cup
  {[fn |-> "formScore", angleTolerance |-> t, angle |-> a] :
     t \in Tolerances, a \in {b \in Angles : b % 5 = 0}}

NewPunchCooldown ==
  /\ call.fn = "PunchCooldown"
  /\ value = <<>>
  /\ value' = <<PunchCooldown(call.cooldownMs)>>
  /\ UNCHANGED <<call, drillVars, detectorVars, comboVars>>

FormScoreOfTolerance ==
  /\ call.fn = "formScore"
  /\ value = <<>>
  /\ value' = <<formScoreOfTolerance(
                  [SCORING_CONFIG.jab EXCEPT
                     !.angleTolerance = call.angleTolerance], call.angle)>>
  /\ UNCHANGED <<call, drillVars, detectorVars, comboVars>>

InitConfig ==
  /\ Is(Constructed)
  /\ NoFrame
  /\ NoCombo
  /\ call \in ConfigCalls
  /\ value = <<>>

NextConfig == NewPunchCooldown \/ FormScoreOfTolerance

SpecConfig == InitConfig /\ [][NextConfig]_vars

(***************************************************************************)
(* SpecSessions: two drill sessions of one page.  Each has its frames      *)
(* classified by detectPunch, which works on the speedTracker and the      *)
(* punchCooldown of the module.                                            *)
(***************************************************************************)
Sessions == {"first", "second"}

\* detectPunch is called for a frame of this session, dt after the last
\* call.
SessionDetectPunch(session, landmarks, dt) ==
  /\ now + dt <= MaxNow
  /\ LET called == detectPunch([Detector EXCEPT !.now = @ + dt], landmarks)
     IN BecomeDetector([called EXCEPT
                          !.result = [session |-> session] @@ called.result])

NextSessions ==
  \E session \in Sessions, landmarks \in WholeFrames, dt \in FrameTimes :
    SessionDetectPunch(session, landmarks, dt)

SpecSessions == InitDetector /\ [][NextSessions]_vars

(***************************************************************************)
(* SpecFair: one session.  start() is called once, stop() is not called,   *)
(* and the event loop runs every callback that is pending.                 *)
(***************************************************************************)
\* The callback of a pending timer of this kind runs.
FireKind(kind) ==
  \E t \in BagToSet(timers) : t.kind = kind /\ Fire(t) /\ Capped

\* The drill is started once and never stopped.
NextGoing ==
  \/ ~isRunning /\ Start /\ Capped
  \/ \E p \in PUNCH_TYPES : \E d \in DataFor(p) : CheckPunch(p, d) /\ Capped
  \/ \E t \in BagToSet(timers) : Fire(t) /\ Capped

SpecFair ==
  /\ Init
  /\ [][NextGoing]_vars
  /\ WF_vars(FireKind("announce"))
  /\ WF_vars(FireKind("miss"))

(***************************************************************************)
(* SpecComboSessions: one session of the ComboDrill at a time.  start() is *)
(* called on a stopped drill and stop() on a running one.                  *)
(***************************************************************************)
NextComboSessions ==
  \/ \E pick \in DOMAIN COMBOS : ~comboDrill.isRunning /\ StartCombo(pick)
  \/ comboDrill.isRunning /\ StopCombo
  \/ \E detectedPunch \in PUNCH_TYPES : CheckPunchCombo(detectedPunch)
  \/ FireShowNextTarget
  \/ \E pick \in DOMAIN COMBOS : FireNextCombo(pick)

SpecComboSessions == InitCombo /\ [][NextComboSessions]_vars

(***************************************************************************)
(* Properties                                                              *)
(***************************************************************************)
ReactionTimers == {t \in BagToSet(timers) : t.kind = "miss"}

\* A step in which handleHit ran.
HitStep == totalHits' = totalHits + 1

OneReactionTimer ==
  BagCardinality([t \in ReactionTimers |-> timers[t]]) <= 1

\* C3: the callback of a timer that was scheduled before a stop() changes
\* neither totalMisses, comboCount nor activePunch and announces no target,
\* while the drill is stopped and after a later start().
NoHandlerAfterStop ==
  [][\A t \in BagToSet(timers) :
       (t.stale /\ Fire(t)) =>
         UNCHANGED <<totalMisses, comboCount, activePunch, drillTimeout>>]_vars

\* C4: stop() discards the expected punch: a stopped drill has no active
\* punch, and a start() leaves none behind for checkPunch to credit.
StopDiscardsExpectedPunch ==
  [][(~isRunning' \/ Start) => activePunch' = null]_vars

\* C5: every Miss increases totalMisses by one, leaves comboCount = 0 and
\* comboMultiplier = 1.0, clears the active punch and schedules the next
\* announce-delay timer.
MissEffects ==
  [][\A t \in ReactionTimers :
       Fire(t) =>
         /\ totalMisses' = totalMisses + 1
         /\ comboCount' = 0
         /\ comboMultiplier' = 10
         /\ activePunch' = null
         /\ \E a \in BagToSet(timers') :
              /\ a.kind = "announce"
              /\ CopiesIn(a, timers') = CopiesIn(a, timers) + 1]_vars

\* C6: a Hit that arrives more than comboResetDelay after the previous Hit
\* does not extend the earlier streak: comboCount is 1 after it.
StaleComboDecays ==
  [][(HitStep /\ sinceLastHit > comboResetDelay) => comboCount' = 1]_vars

NoDuplicates(seq) == Cardinality(Range(seq)) = Len(seq)

\* C7: within a session (any step that is not a start()) no class leaves
\* availablePunchTypes, and no class is in it twice.
UnlockedSetOnlyGrows ==
  [][/\ ~Start => Range(availablePunchTypes) \subseteq
                    Range(availablePunchTypes')
     /\ NoDuplicates(availablePunchTypes')]_vars

\* A running session whose fiftieth hit has just raised the level to 6, with
\* the hooks and the uppercuts added before.
UnlockedSetOnlyGrowsWitness ==
  /\ isRunning
  /\ level = 6
  /\ hitsInLevel = 0
  /\ lastPoints > 0
  /\ Len(availablePunchTypes) = 6

\* The unlock table of the README: Jab and Cross, hooks from level 3,
\* uppercuts from level 5, body shots from level 7.
UnlockTable(lvl) ==
  {"Jab", "Cross"}
    \cup (IF lvl >= 3 THEN {"Left Hook", "Right Hook"} ELSE {})
    \cup (IF lvl >= 5 THEN {"Left Uppercut", "Right Uppercut"} ELSE {})
    \cup (IF lvl >= 7 THEN {"Left Body", "Right Body"} ELSE {})

\* C8: in a running drill the unlocked set is the one of the unlock table
\* for the current level, and the table grows with the level.
UnlockedSetIsTable ==
  /\ isRunning => Range(availablePunchTypes) = UnlockTable(level)
  /\ \A l1 \in 1..level : UnlockTable(l1) \subseteq Range(availablePunchTypes)

\* A running session whose sixtieth hit has just raised the level to 7 and
\* unlocked the last of the eight classes.
UnlockedSetIsTableWitness ==
  /\ isRunning
  /\ level = 7
  /\ hitsInLevel = 0
  /\ lastPoints > 0
  /\ Range(availablePunchTypes) = PUNCH_TYPES

\* C9: the Hit that brings hitsInLevel to the quota raises the level by one,
\* resets hitsInLevel to 0 and re-evaluates the unlock table (level 2 to 3
\* adds the two hooks); hitsInLevel stays in 0..9 and level >= 1.
LevelUpAtQuota ==
  /\ [](hitsInLevel \in 0..(hitsPerLevel - 1) /\ level >= 1)
  /\ [][(HitStep /\ hitsInLevel = hitsPerLevel - 1) =>
          /\ level' = level + 1
          /\ hitsInLevel' = 0
          /\ Range(availablePunchTypes') = UnlockTable(level')
          /\ level = 2 =>
               /\ level' = 3
               /\ Range(availablePunchTypes') =
                    Range(availablePunchTypes) \cup {"Left Hook", "Right Hook"}
               /\ ~includes(availablePunchTypes, "Left Hook")]_vars

\* The twentieth hit of a session has just raised the level from 2 to 3.
LevelUpAtQuotaWitness ==
  /\ level = 3
  /\ hitsInLevel = 0
  /\ totalHits = 2 * hitsPerLevel
  /\ lastPoints > 0
  /\ includes(availablePunchTypes, "Right Hook")

\* The tier bonus of the punch data: 50 above an average quality of 90, 25
\* above 75, where a missing score counts as 50.
TierBonus(d) ==
  LET q(v) == IF v = 0 THEN 50 ELSE v
      sum == q(d.speedScore) + q(d.formScore)
  IN IF sum > 180 THEN 50 ELSE IF sum > 150 THEN 25 ELSE 0

\* A checkPunch(p, d) call on a running drill whose active target is p.
MatchingPunch(p, d) == isRunning /\ activePunch = p /\ CheckPunch(p, d)

\* C10 as stated: a matching punch cancels the pending timeout and adds one
\* to comboCount, totalHits and hitsInLevel; the first Hit of a session at
\* level 1 on Jab gives hitsInLevel = 1, comboCount = 1 and 100 points.
HitEffectsAsStated ==
  [][\A p \in PUNCH_TYPES, d \in PunchData :
       MatchingPunch(p, d) =>
         /\ HandleTimers(timers') = {}
         /\ comboCount' = comboCount + 1
         /\ totalHits' = totalHits + 1
         /\ hitsInLevel' = hitsInLevel + 1
         /\ (totalHits = 0 /\ level = 1 /\ p = "Jab") =>
              /\ hitsInLevel' = 1
              /\ comboCount' = 1
              /\ lastPoints' = 100]_vars

\* C10 as amended: hitsInLevel goes up by one or, at the quota, back to 0,
\* and the first Hit on Jab scores 100 points plus the tier bonus.
HitEffects ==
  [][\A p \in PUNCH_TYPES, d \in PunchData :
       MatchingPunch(p, d) =>
         /\ HandleTimers(timers') = {}
         /\ comboCount' = comboCount + 1
         /\ totalHits' = totalHits + 1
         /\ hitsInLevel' = (hitsInLevel + 1) % hitsPerLevel
         /\ (totalHits = 0 /\ level = 1 /\ p = "Jab") =>
              /\ hitsInLevel' = 1
              /\ comboCount' = 1
              /\ lastPoints' = 100 + TierBonus(d)]_vars

\* The first Hit of a session, on Jab, has just scored 100 points.
HitEffectsWitness ==
  /\ isRunning
  /\ totalHits = 1
  /\ hitsInLevel = 1
  /\ comboCount = 1
  /\ lastPoints = 100
  /\ activePunch = null

\* C11: the points of a Hit are the floor of (100 + tier bonus + category
\* bonus) times the combo multiplier, with a category bonus that is 0 for Jab
\* and Cross and positive for every other class, so the Hit never scores
\* less than a straight punch of the same quality at the same combo count.
HitPoints ==
  [][\A p \in PUNCH_TYPES, d \in PunchData :
       MatchingPunch(p, d) =>
         \E bonus \in 0..50 :
           /\ bonus = 0 <=> p \in {"Jab", "Cross"}
           /\ 10 * lastPoints'
                <= (100 + TierBonus(d) + bonus) * comboMultiplier'
           /\ (100 + TierBonus(d) + bonus) * comboMultiplier'
                < 10 * (lastPoints' + 1)
           /\ 10 * (lastPoints' + 1)
                > (100 + TierBonus(d)) * comboMultiplier']_vars

\* The fortieth hit of a session, a hook of great quality at the multiplier
\* 7.5, has just scored the floor of 135 x 7.5 = 1012.5 points.
HitPointsWitness ==
  /\ isRunning
  /\ totalHits = 4 * hitsPerLevel
  /\ comboMultiplier = 75
  /\ lastPoints = 1012

\* C12: after every Hit the comboMultiplier of the drill is the step function
\* calculateComboMultiplier of comboCount, and never above 2.5.
ComboMultiplierIsStepFunction ==
  [][HitStep =>
       /\ comboMultiplier' = calculateComboMultiplier(comboCount')
       /\ comboMultiplier' <= 25]_vars

\* C13: calculateComboMultiplier(n) is one of 1.0, 1.2, 1.5, 1.8, 2.0, 2.5,
\* it is 1.0 for n < 3 and 2.5 for n >= 25, and no smaller n gives more.
ComboMultiplierSteps ==
  (call.fn = "calculateComboMultiplier" /\ value # <<>>) =>
    /\ value[1] \in {10, 12, 15, 18, 20, 25}
    /\ call.comboCount < 3 => value[1] = 10
    /\ call.comboCount >= 25 => value[1] = 25
    /\ \A m \in 0..call.comboCount : calculateComboMultiplier(m) <= value[1]

\* calculateComboMultiplier(25) has returned 2.5.
ComboMultiplierStepsWitness ==
  /\ call.fn = "calculateComboMultiplier"
  /\ call.comboCount = 25
  /\ value = <<25>>

\* C14: the announce-delay callback of a running drill arms the reaction
\* timeout with max(2500 - (level - 1) x 150, 800) ms for the current level:
\* 2500 ms at level 1, never below 800 ms, and never more than the budget of
\* a lower level.
ReactionBudget ==
  [][\A t \in BagToSet(timers) :
       (Fire(t) /\ t.kind = "announce" /\ isRunning) =>
         \E m \in HandleTimers(timers') :
           /\ m.kind = "miss"
           /\ m.rem = m.delay
           /\ m.delay = Max(2500 - (level - 1) * 150, 800)
           /\ m.delay >= 800
           /\ level = 1 => m.delay = 2500
           /\ \A l \in 1..level :
                getCurrentReactionTime([level |-> l]) >= m.delay]_vars

\* A target of level 13 or above is shown with the floor of 800 ms, where
\* the linear budget would be 700 ms or less.
ReactionBudgetWitness ==
  /\ isRunning
  /\ level >= 13
  /\ activePunch # null
  /\ \E m \in HandleTimers(timers) : m.kind = "miss" /\ m.delay = 800

\* C15: the summary of stop() reports the largest comboCount of the session
\* as max combo and hits / (hits + misses) as accuracy, 0 without attempts.
SummaryReportsSession ==
  summary # <<>> =>
    /\ summary[1].maxCombo = bestCombo
    /\ summary[1].accuracy =
         IF totalHits + totalMisses = 0 THEN 0
         ELSE (2000 * totalHits + totalHits + totalMisses)
                \div (2 * (totalHits + totalMisses))

\* C16: when the class C fired less than W before a frame arrives and no
\* other class fired since (W = 350 ms in the strict version, 250 ms in the
\* arcade version), detectPunch does not return C for that frame.
Cooldown ==
  [][(/\ lastPunchType # null
      /\ now' - lastPunchTime < (IF variant = "strict" THEN 350 ELSE 250)
      /\ result'.fn = "detectPunch"
      /\ result'.punch = lastPunchType)
        => ~\E landmarks \in Frames, dt \in FrameTimes :
              DetectPunch(landmarks, dt)]_vars

\* The left arm is straight and fast 200 ms after a Jab of the strict
\* version, and the frame is answered with no punch.
CooldownWitness ==
  /\ variant = "strict"
  /\ result.fn = "detectPunch"
  /\ result.punch = null
  /\ ~result.threw
  /\ lastPunchType = "Jab"
  /\ now - lastPunchTime = 200
  /\ result.leftSpeed > 70 * SpeedScale
  /\ lastPositions[15].x = 850
  /\ lastPositions[15].y = 300

\* C17: a frame that qualifies for Cross and arrives right after a frame
\* that fired Jab fires Cross: when it comes before the window has passed,
\* also if it qualifies for Jab again, and otherwise if it does not.
AlternatingHands ==
  [][\A landmarks \in WholeFrames, dt \in FrameTimes :
       (/\ result.fn = "detectPunch"
        /\ result.punch = "Jab"
        /\ DetectPunch(landmarks, dt)
        /\ LET k == kinematics(variant, landmarks, result'.leftSpeed,
                               result'.rightSpeed)
           IN /\ rule(variant, "Cross", k)
              /\ \/ ~rule(variant, "Jab", k)
                 \/ dt < (IF variant = "strict" THEN 350 ELSE 250))
         => result'.punch = "Cross"]_vars

\* Both arms are straight and fast, and the strict version answers Cross:
\* its Jab is still in the window of the Jab fired by the frame before.
AlternatingHandsWitness ==
  /\ variant = "strict"
  /\ result.fn = "detectPunch"
  /\ result.punch = "Cross"
  /\ lastPunchType = "Cross"
  /\ lastPunchTime = now
  /\ result.leftSpeed > 70 * SpeedScale
  /\ result.rightSpeed > 70 * SpeedScale
  /\ lastPositions[15].x = 850
  /\ lastPositions[16].x = 150

\* C18: a frame gets one answer: the first class in the order Jab, Cross,
\* Left Hook, Right Hook, Left Uppercut, Right Uppercut, Left Body,
\* Right Body whose predicates hold for the frame and whose cooldown gate
\* is open, and no punch when there is no such class.
FirstOpenClassWins ==
  [][\A landmarks \in WholeFrames, dt \in FrameTimes :
       DetectPunch(landmarks, dt) =>
         LET Priority == <<"Jab", "Cross", "Left Hook", "Right Hook",
                           "Left Uppercut", "Right Uppercut",
                           "Left Body", "Right Body">>
             k == kinematics(variant, landmarks, result'.leftSpeed,
                             result'.rightSpeed)
             since == (now + dt) - lastPunchTime
             open(c) ==
               IF variant = "strict"
               THEN since > 350 \/ lastPunchType # c
               ELSE \/ since > 250
                    \/ lastPunchType = null
                    \/ leftHand(c) # leftHand(lastPunchType)
             wins(i) ==
               /\ variant = "strict" \/ ~isBody(Priority[i])
               /\ rule(variant, Priority[i], k)
               /\ open(Priority[i])
             winners == {i \in 1..Len(Priority) : wins(i)}
         IN /\ result'.fn = "detectPunch"
            /\ ~result'.threw
            /\ IF winners = {} THEN result'.punch = null
               ELSE \E i \in winners :
                      /\ \A j \in winners : i <= j
                      /\ result'.punch = Priority[i]]_vars

\* The arcade version answers Cross to a frame whose left arm is straight
\* and fast as well: Jab comes first in the order, and its gate is closed.
FirstOpenClassWinsWitness ==
  /\ variant = "arcade"
  /\ result.fn = "detectPunch"
  /\ result.punch = "Cross"
  /\ lastPunchTime = now
  /\ result.leftSpeed > 40 * SpeedScale
  /\ lastPositions[15].x = 850
  /\ lastPositions[16].x = 150

\* C19: no call of detectPunch ends with an exception: every frame, also
\* one with fewer than 17 landmarks or with an undefined shoulder, elbow,
\* wrist or nose, gets a result, and a frame with a part missing gets the
\* result without a punch.
NoExceptionPerFrame ==
  [][\A landmarks \in Frames, dt \in FrameTimes :
       DetectPunch(landmarks, dt) =>
         /\ ~result'.threw
         /\ landmarks \in BrokenFrames => result'.punch = null]_vars

\* C20: updateSpeed returns 0 for an id that was not observed since the
\* tracker was made or reset, and when no time has passed since the last
\* sample of the id; after reset() no id counts as observed.
UpdateSpeedZero ==
  [][\A landmarkId \in {15, 16}, p \in TrackerPoints :
       UpdateSpeed(landmarkId, p.x, p.y) =>
         /\ landmarkId \notin observed => result'.speed = 0
         /\ (landmarkId \in observed /\ lastPositions[landmarkId].time = now)
              => result'.speed = 0
         /\ result.fn = "reset" => result'.speed = 0]_vars

\* The call for id 15 returned 0 although the id has a history of one
\* speed above 0: it was sampled a second time at the same instant.
UpdateSpeedZeroWitness ==
  /\ result = [fn |-> "updateSpeed", landmarkId |-> 15, speed |-> 0]
  /\ 15 \in DOMAIN velocityHistory
  /\ Len(velocityHistory[15]) = 1
  /\ velocityHistory[15][1] > 0
  /\ lastPositions[15].time = now

\* C21: a history never holds more than 5 speeds; a call for an id that
\* was observed before, at a later time, appends the instantaneous speed
\* and drops the oldest speed when that makes 6, so that the history is
\* the last min(k, 5) of the k speeds of the id, and returns the
\* arithmetic mean of the history; the position and the history of the
\* other ids stay as they are.
HistoryOfLastFive ==
  [][\A landmarkId \in {15, 16}, p \in TrackerPoints, dt \in {0, FrameTime} :
       Sample(landmarkId, p.x, p.y, dt) =>
         /\ \A id \in DOMAIN velocityHistory' :
              /\ Len(velocityHistory'[id]) <= 5
              /\ Len(velocityHistory'[id])
                   = (IF pushes'[id] < 5 THEN pushes'[id] ELSE 5)
         /\ \A id \in DOMAIN lastPositions \ {landmarkId} :
              /\ lastPositions'[id] = lastPositions[id]
              /\ velocityHistory'[id] = velocityHistory[id]
         /\ DOMAIN lastPositions' = DOMAIN lastPositions \cup {landmarkId}
         /\ (/\ landmarkId \in DOMAIN lastPositions
             /\ lastPositions[landmarkId].time # now + dt) =>
              LET last == lastPositions[landmarkId]
                  dx == p.x - last.x
                  dy == p.y - last.y
                  elapsed == now + dt - last.time
                  all == velocityHistory[landmarkId]
                           \o <<(sqrt(dx * dx + dy * dy) * 1000 * SpeedScale)
                                  \div elapsed>>
                  kept == IF Len(all) < 5 THEN Len(all) ELSE 5
                  history == velocityHistory'[landmarkId]
              IN /\ (sqrt(dx * dx + dy * dy) * 1000 * SpeedScale) % elapsed = 0
                 /\ history = SubSeq(all, Len(all) - kept + 1, Len(all))
                 /\ result'.speed * Len(history) = reduceSum(history)]_vars

\* The seventh sample of the left wrist is the first that moved: its
\* history is the last five of six speeds and the mean is a fifth of the
\* last speed, while the right wrist, which moved once at the start, keeps
\* its own five speeds.
HistoryOfLastFiveWitness ==
  /\ result = [fn |-> "updateSpeed", landmarkId |-> 15,
               speed |-> 250 * SpeedScale]
  /\ 16 \in DOMAIN velocityHistory
  /\ pushes[15] = 6
  /\ velocityHistory[15] = <<0, 0, 0, 0, 1250 * SpeedScale>>
  /\ pushes[16] = 5
  /\ velocityHistory[16] = <<1250 * SpeedScale, 0, 0, 0, 0>>

\* C22: for a punch type and an angle, a higher speed up to idealSpeed
\* gives a higher speedScore, and a higher speed above 1.5 x idealSpeed
\* gives a lower speedScore.
SpeedScoreMonotone ==
  (call.fn = "calculateScore" /\ value # <<>> /\ call.punchType # "none") =>
    LET config == configOf(call.punchType)
        less(a, b) == a.n * b.d < b.n * a.d
        mine == speedScore(config, call.speed)
    IN \A v \in Speeds :
         /\ (call.speed < v /\ v <= config.idealSpeed)
              => less(mine, speedScore(config, v))
         /\ (2 * call.speed > 3 * config.idealSpeed /\ call.speed < v)
              => less(speedScore(config, v), mine)

\* C23: the form score is 100 at the ideal angle and never below 0; one
\* degree more of deviation takes 20 / angleTolerance off it inside the
\* tolerance band and 1.5 beyond it, until 0 is reached, and the first is
\* less than the second; it is 80 at the tolerance, where both lines meet.
FormScoreShape ==
  (call.fn = "calculateScore" /\ value # <<>> /\ call.punchType # "none") =>
    LET config == configOf(call.punchType)
        tolerance == config.angleTolerance
        deviation == abs(call.angle - config.idealAngle)
        here == formScore(config, call.angle)
        next == formScore(config, IF call.angle >= config.idealAngle
                                  THEN call.angle + 1 ELSE call.angle - 1)
        drop == here.n * next.d - next.n * here.d   \* over here.d * next.d
        whole == here.d * next.d
    IN /\ value[1].formScore = MathRound(here)
       /\ value[1].formScore \in 0..100
       /\ here.n >= 0
       /\ deviation = 0 => value[1].formScore = 100 /\ here.n = 100 * here.d
       /\ drop >= 0
       /\ deviation < tolerance => drop * tolerance = 20 * whole
       /\ deviation >= tolerance =>
            \/ 2 * drop = 3 * whole
            \/ next.n = 0 /\ 2 * drop < 3 * whole
       /\ 20 * 2 < 3 * tolerance
       /\ deviation = tolerance => here.n = 80 * here.d
       /\ deviation = tolerance + 1 => 2 * here.n = 157 * here.d

\* cross at 139 degrees, one degree beyond the tolerance of 25: the form
\* score 78.5 is returned as 79.
FormScoreShapeWitness ==
  /\ call.fn = "calculateScore"
  /\ call.punchType = "cross"
  /\ call.angle = 139
  /\ value # <<>>
  /\ value[1].formScore = 79

\* C24: for a punch type other than none the three scores returned are
\* within 0..100, the weights of the configuration add up to 1, and the
\* total is the weighted sum of the sub-scores, rounded: it is at most one
\* point away from the weighted sum of the rounded sub-scores.  For none
\* the three scores are 0 and the grade is F.
ScoresInRange ==
  (call.fn = "calculateScore" /\ value # <<>>) =>
    IF call.punchType = "none"
    THEN /\ value[1].speedScore = 0
         /\ value[1].formScore = 0
         /\ value[1].totalScore = 0
         /\ value[1].grade = "F"
    ELSE LET config == configOf(call.punchType)
             sum == config.speedWeight * value[1].speedScore
                      + config.formWeight * value[1].formScore
         IN /\ value[1].speedScore \in 0..100
            /\ value[1].formScore \in 0..100
            /\ value[1].totalScore \in 0..100
            /\ config.speedWeight + config.formWeight = 100
            /\ abs(100 * value[1].totalScore - sum) <= 100
            /\ value[1].totalScore
                 = MathRound(weighted(config,
                                      speedScore(config, call.speed),
                                      formScore(config, call.angle)))

\* hook at the ideal speed and at the edge of the tolerance: 100 and 80
\* give the total 90.
ScoresInRangeWitness ==
  /\ call.fn = "calculateScore"
  /\ call.punchType = "hook"
  /\ value # <<>>
  /\ value[1].speedScore = 100
  /\ value[1].formScore = 80
  /\ value[1].totalScore = 90

\* C25: the grade returned is the one that the table S >= 95, A+ >= 90,
\* A >= 85, A- >= 80, B+ >= 75, B >= 70, B- >= 65, C+ >= 60, C >= 55,
\* C- >= 50, D >= 45, F gives for the totalScore returned, and isPerfect,
\* isGreat, isGood say that this totalScore is at least 95, 85, 70.
GradeOfReturnedTotal ==
  (call.fn = "calculateScore" /\ value # <<>> /\ call.punchType # "none") =>
    LET total == value[1].totalScore
        Table == <<[min |-> 95, grade |-> "S"], [min |-> 90, grade |-> "A+"],
                   [min |-> 85, grade |-> "A"], [min |-> 80, grade |-> "A-"],
                   [min |-> 75, grade |-> "B+"], [min |-> 70, grade |-> "B"],
                   [min |-> 65, grade |-> "B-"], [min |-> 60, grade |-> "C+"],
                   [min |-> 55, grade |-> "C"], [min |-> 50, grade |-> "C-"],
                   [min |-> 45, grade |-> "D"], [min |-> 0, grade |-> "F"]>>
        first == CHOOSE i \in 1..Len(Table) :
                   /\ total >= Table[i].min
                   /\ \A j \in 1..(i - 1) : total < Table[j].min
    IN /\ value[1].grade = Table[first].grade
       /\ value[1].isPerfect <=> total >= 95
       /\ value[1].isGreat <=> total >= 85
       /\ value[1].isGood <=> total >= 70

\* C26: the feedback is of the perfect tier exactly when the result is
\* perfect (total at least 95), of the great tier when it is great and not
\* perfect, of the good tier when it is good and not great, and names what
\* to improve when it is not good (total below 70).
FeedbackTierOfScore ==
  (call.fn = "calculateScore" /\ value # <<>> /\ call.punchType # "none") =>
    LET tier == value[1].feedback.tier
    IN /\ tier = "perfect" <=> value[1].isPerfect
       /\ tier = "great" <=> (value[1].isGreat /\ ~value[1].isPerfect)
       /\ tier = "good" <=> (value[1].isGood /\ ~value[1].isGreat)
       /\ tier = "remediation" <=> ~value[1].isGood

\* C27: for a class name of the classifier the ideal speed and the ideal
\* angle used are those of the class's own category: of jab for Jab, of
\* cross for Cross, of hook for the hooks, and for the uppercuts and the
\* body shots at least not those of jab, cross or hook.
ClassCategoryConfig ==
  (call.fn = "calculateScore" /\ value # <<>>
     /\ call.punchType \in PUNCH_TYPES) =>
    LET used == <<value[1].details.idealSpeed, value[1].details.idealAngle>>
        of(key) == <<SCORING_CONFIG[key].idealSpeed,
                     SCORING_CONFIG[key].idealAngle>>
    IN /\ call.punchType = "Jab" => used = of("jab")
       /\ call.punchType = "Cross" => used = of("cross")
       /\ isHook(call.punchType) => used = of("hook")
       /\ (isUppercut(call.punchType) \/ isBody(call.punchType))
            => used \notin {of("jab"), of("cross"), of("hook")}

\* C28: the bonus is the sum of four parts, each from its own input: 50
\* for a perfect punch, else 25 for a great one; 10, 25, 50 and 100 for
\* the combo counts from 5, 10, 20 and 50 on, added up; 20 when less than
\* 1000 ms remain; 15 for each hit of a perfect streak of 3 or more.
BonusIsSumOfParts ==
  (call.fn = "calculateBonusPoints" /\ value # <<>>) =>
    LET data == call.punchData
        context == call.context
        tier == IF data.isPerfect THEN 50 ELSE IF data.isGreat THEN 25 ELSE 0
        combo == CASE context.comboCount >= 50 -> 185
                   [] context.comboCount \in 20..49 -> 85
                   [] context.comboCount \in 10..19 -> 35
                   [] context.comboCount \in 5..9 -> 10
                   [] context.comboCount < 5 -> 0
        time == IF context.timeRemaining < 1000 THEN 20 ELSE 0
        streak == IF context.consecutivePerfect >= 3
                  THEN 15 * context.consecutivePerfect ELSE 0
    IN value[1] = tier + combo + time + streak

\* The step that the running drill expects, if there is one.
expects(detectedPunch) ==
  /\ comboDrill.isRunning
  /\ comboDrill.currentCombo # null
  /\ comboDrill.stepIndex < Len(COMBOS[comboDrill.currentCombo])
  /\ detectedPunch = COMBOS[comboDrill.currentCombo][comboDrill.stepIndex + 1]

\* C29: in the ComboDrill stepIndex advances by one exactly on a punch equal
\* to the expected step; any other punch leaves the drill as it was and
\* scores nothing.  For [Jab, Cross, Left Hook] the punches Jab, Left Hook,
\* Cross leave stepIndex at 2, sequence not completed.
StepOnExpectedPunchOnly ==
  /\ [][\A detectedPunch \in PUNCH_TYPES :
          CheckPunchCombo(detectedPunch) =>
            IF expects(detectedPunch)
            THEN /\ comboDrill'.stepIndex = comboDrill.stepIndex + 1
                 /\ comboDrill'.currentCombo = comboDrill.currentCombo
            ELSE /\ UNCHANGED <<comboDrill, comboTimers>>
                 /\ comboOut'.onScore = <<>>]_vars
  /\ [](comboDrill.isRunning /\ comboDrill.currentCombo = "1-2-3"
          /\ comboDrill.stepIndex = 0
        => LET afterJab == comboCheckPunch(Combo, "Jab")
               afterLeftHook == comboCheckPunch(afterJab, "Left Hook")
               afterCross == comboCheckPunch(afterLeftHook, "Cross")
           IN /\ afterJab.stepIndex = 1
              /\ afterLeftHook.stepIndex = 1
              /\ afterCross.stepIndex = 2
              /\ afterCross.out.onScore = <<>>
              /\ afterCross.timers.next = comboTimers.next)

\* Cross has just been accepted as step 1 of [Jab, Cross, Left Hook].
StepOnExpectedPunchOnlyWitness ==
  /\ comboDrill.isRunning
  /\ comboDrill.currentCombo = "1-2-3"
  /\ comboDrill.stepIndex = 2
  /\ comboOut = [threw |-> FALSE, onScore |-> <<>>]
  /\ comboTimers.next = 0

\* The running drill is past the last step of its sequence.
completed ==
  /\ comboDrill.isRunning
  /\ comboDrill.currentCombo # null
  /\ comboDrill.stepIndex = Len(COMBOS[comboDrill.currentCombo])

\* C30: the punch that completes the sequence gives 100 x its length to
\* onScore; nothing else scores, and a completed sequence scores no more;
\* its callback, run while the drill is running, draws a sequence with
\* stepIndex 0, and the drill does not stay on a completed sequence.
BonusOncePerSequence ==
  /\ [][/\ (\E detectedPunch \in PUNCH_TYPES :
            /\ expects(detectedPunch)
            /\ comboDrill.stepIndex + 1 = Len(COMBOS[comboDrill.currentCombo])
            /\ CheckPunchCombo(detectedPunch))
          => /\ comboOut'.onScore =
                  <<100 * Len(COMBOS[comboDrill.currentCombo])>>
             /\ comboTimers'.next = comboTimers.next + 1
        /\ comboOut'.onScore # <<>>
          => /\ comboDrill.isRunning /\ comboDrill.currentCombo # null
             /\ comboDrill'.currentCombo = comboDrill.currentCombo
             /\ comboDrill.stepIndex + 1 = Len(COMBOS[comboDrill.currentCombo])
             /\ comboDrill'.stepIndex = comboDrill.stepIndex + 1
        /\ completed
          => /\ comboOut'.onScore = <<>>
             /\ \/ comboDrill'.stepIndex = comboDrill.stepIndex
                \/ comboDrill'.stepIndex = 0
        /\ \A pick \in DOMAIN COMBOS :
             comboDrill.isRunning /\ FireNextCombo(pick)
               => comboDrill' = [isRunning |-> TRUE, currentCombo |-> pick,
                                 stepIndex |-> 0]]_vars
  /\ [](completed => comboTimers.next > 0)
  /\ (completed ~> (~comboDrill.isRunning \/ comboDrill.stepIndex = 0))

\* The third step of a sequence of three has just been hit.
BonusOncePerSequenceWitness ==
  /\ completed
  /\ comboDrill.stepIndex = 3
  /\ comboOut.onScore = <<300>>
  /\ comboTimers.next > 0

\* C31: analyzeStance returns isGood = TRUE exactly when its tips are empty,
\* and the tips are those of the fixed order that were raised, in that
\* order: shoulders level, body square, head centred.
StanceTipsInOrder ==
  (call.fn = "analyzeStance" /\ value # <<>>) =>
    LET stance == value[1]
        raised(tip) == tip \in Range(stance.tips)
    IN /\ stance.isGood = (stance.tips = <<>>)
       /\ stance.tips = SelectSeq(stanceTips, raised)

\* All three checks of a frame have failed.
StanceTipsInOrderWitness ==
  /\ call.fn = "analyzeStance"
  /\ value # <<>>
  /\ ~value[1].isGood
  /\ Len(value[1].tips) = 3

\* C32: a negative cooldown given to the constructor of PunchCooldown, and
\* an angle tolerance of 0 used by the scorer, end in a validation error.
ConfigurationValidated ==
  value # <<>> =>
    /\ (call.fn = "PunchCooldown" /\ call.cooldownMs < 0) => value[1].threw
    /\ (call.fn = "formScore" /\ call.angleTolerance = 0) => value[1].threw

\* C33: a call of detectPunch for one session does not change what the
\* other session is answered: the class of any frame that the other
\* session hands in next is the one it would have been without the call.
SessionsShareNothing ==
  [][\A session \in Sessions, landmarks \in WholeFrames, dt \in FrameTimes :
       SessionDetectPunch(session, landmarks, dt) =>
         \A next \in WholeFrames, wait \in {0, FrameTime} :
           now' + wait <= MaxNow =>
             detectPunch([Detector' EXCEPT !.now = @ + wait], next).result.punch
               = detectPunch([Detector EXCEPT !.now = now' + wait],
                             next).result.punch]_vars

\* A step in which the callback of an announce-delay timer ran.
AnnounceStep == \E t \in BagToSet(timers) : t.kind = "announce" /\ Fire(t)

\* The announce callback is the only step that sets activePunch, and it
\* sets it to a class of availablePunchTypes; until start() is called again
\* the class stays in the set.
PickedFromUnlockedSet ==
  [][/\ (activePunch' # null /\ activePunch' # activePunch) => AnnounceStep
     /\ (isRunning /\ AnnounceStep) =>
          /\ activePunch' \in Range(availablePunchTypes)
          /\ availablePunchTypes' = availablePunchTypes
     /\ (activePunch \in Range(availablePunchTypes) /\ ~Start) =>
          activePunch' \in {null} \cup Range(availablePunchTypes')]_vars

\* C34: whenever the running drill has an active punch, that punch is in
\* availablePunchTypes of the session (the set only grows in a session, so
\* a class that was in it when it was announced is in it now).
ActivePunchIsUnlocked ==
  (isRunning /\ activePunch # null) =>
    activePunch \in Range(availablePunchTypes)

\* C35: while the drill is running and is not stopped, a pending announce
\* callback leads to a target, a target leads to its resolution (the
\* active punch is cleared by a Hit or a Miss), and a resolution leads to
\* the next target; a running drill without a target has an announce
\* callback pending.  Misses are explored up to MaxMisses.
DrillKeepsGoing ==
  /\ [](isRunning /\ activePunch = null
          => \E t \in BagToSet(timers) : t.kind = "announce")
  /\ (isRunning /\ activePunch = null) ~> (activePunch # null \/ ~isRunning)
  /\ (isRunning /\ activePunch # null /\ totalMisses < MaxMisses)
       ~> (activePunch = null \/ ~isRunning)

\* A target is shown after a Miss resolved the one before.
DrillKeepsGoingWitness ==
  /\ isRunning
  /\ activePunch # null
  /\ totalMisses > 0
  /\ \E t \in BagToSet(timers) : t.kind = "miss"

\* C36: whenever the ComboDrill is running with a current sequence,
\* 0 <= stepIndex < length of the sequence, and checkPunch, which reads
\* sequence[stepIndex], never throws.
StepIndexInSequence ==
  /\ []((comboDrill.isRunning /\ comboDrill.currentCombo # null) =>
          /\ 0 <= comboDrill.stepIndex
          /\ comboDrill.stepIndex < Len(COMBOS[comboDrill.currentCombo]))
  /\ [][\A detectedPunch \in PUNCH_TYPES :
          CheckPunchCombo(detectedPunch) => ~comboOut'.threw]_vars

\* C37: a callback scheduled before stop() does not act on the session
\* that start() begins afterwards: with one session at a time, the sequence
\* and the stepIndex of a running drill change only by a matching punch or,
\* once the sequence is completed, by the draw of the next one.
NoStaleComboCallback ==
  [][(comboDrill.isRunning /\ comboDrill' # comboDrill) =>
       \/ ~comboDrill'.isRunning
       \/ \E detectedPunch \in PUNCH_TYPES :
            expects(detectedPunch) /\ CheckPunchCombo(detectedPunch)
       \/ completed /\ \E pick \in DOMAIN COMBOS : FireNextCombo(pick)]_vars

\* C38: between the operations of a FocusMittDrill,
\* totalHits = (level - 1) * hitsPerLevel + hitsInLevel,
\* perfectHits <= totalHits, comboCount <= totalHits and
\* comboMultiplier >= 1 (10 tenths).
CountersConsistent ==
  /\ totalHits = (level - 1) * hitsPerLevel + hitsInLevel
  /\ perfectHits <= totalHits
  /\ comboCount <= totalHits
  /\ comboMultiplier >= 10

\* The first hit of level 2 has been counted, in a combo.
CountersConsistentWitness ==
  /\ level = 2
  /\ hitsInLevel = 1
  /\ totalHits = hitsPerLevel + 1
  /\ comboCount > 1

\* C39: checkPunch returns the drill as it entered it (every field and
\* every timer, and nothing given to onScore) when the drill is not
\* running, when no punch is active, or when the detected class is not the
\* active one; the normalised names of two different classes are different.
CheckPunchFrame ==
  /\ \A p \in PUNCH_TYPES, d \in PunchData :
       (~isRunning \/ activePunch = null \/ p # activePunch) =>
         checkPunch(Entered, p, d) = Entered
  /\ \A p \in PUNCH_TYPES, q \in PUNCH_TYPES :
       normalizePunchName(p) = normalizePunchName(q) => p = q

\* A left hook is the target, and a right hook handed to checkPunch leaves
\* the drill as it is.
CheckPunchFrameWitness ==
  /\ isRunning
  /\ activePunch = "Left Hook"
  /\ timers # EmptyBag
  /\ checkPunch(Entered, "Right Hook", NoData) = Entered

\* detectPunch returns null or a class of its list of checks.
ReturnsCheckedClass ==
  result.fn = "detectPunch" =>
    result.punch \in {null} \cup Range(order(variant))

\* C40: a class that the drill announces is a class that detectPunch, as it
\* is loaded, can return: it is one of the classes of its checks.
AnnouncedClassIsDetectable ==
  activePunch # null => activePunch \in Range(order(variant))

====
